---------------------------- MODULE Spec2Model ----------------------------
(***************************************************************************)
(* A model of the toonlite TOON codec: the column builder, the tabular     *)
(* parser, the row streamer, the encoder and the DOM parser.               *)
(*                                                                         *)
(* Text is modelled at character level: a string is a sequence of          *)
(* one-character strings, a file is a sequence of lines.  Row indices are  *)
(* 0-based as in the source; the sequences that hold the rows are 1-based. *)
(***************************************************************************)
EXTENDS Integers, Sequences, FiniteSets, TLC

VARIABLES
    cb,     \* the column-builder harness: one ColBuilder and the calls made on it
    tab,    \* a TabularParser run (read_table)
    strm,   \* a RowStreamer run (stream_rows)
    rt      \* an encode / parse round trip

vars == <<cb, tab, strm, rt>>

Idle == [pc |-> "idle"]

(***************************************************************************)
(* Bounds of the model.                                                    *)
(***************************************************************************)
MaxCalls == 3      \* set/set_null calls made on one column

(***************************************************************************)
(* Characters and text helpers.                                            *)
(***************************************************************************)
Max(a, b) == IF a >= b THEN a ELSE b
Min(a, b) == IF a <= b THEN a ELSE b

Digits == <<"0", "1", "2", "3", "4", "5", "6", "7", "8", "9">>

IsDigit(c) == \E i \in 1..10 : Digits[i] = c

DigitVal(c) == (CHOOSE i \in 1..10 : Digits[i] = c) - 1

\* std::isspace in the C locale (the vertical tab is not used by the model)
IsSpace(c) == c \in {" ", "\t", "\n", "\r", "\f"}

RECURSIVE TrimFront(_)
TrimFront(sv) ==
    IF Len(sv) > 0 /\ IsSpace(sv[1]) THEN TrimFront(Tail(sv)) ELSE sv

RECURSIVE TrimBack(_)
TrimBack(sv) ==
    IF Len(sv) > 0 /\ IsSpace(sv[Len(sv)])
    THEN TrimBack(SubSeq(sv, 1, Len(sv) - 1))
    ELSE sv

trim(sv) == TrimBack(TrimFront(sv))

Contains(s, c) == \E i \in 1..Len(s) : s[i] = c

\* std::vector::resize(n, fill)
Resize(s, n, fill) ==
    IF n <= Len(s) THEN SubSeq(s, 1, n)
    ELSE s \o [i \in 1..(n - Len(s)) |-> fill]

\* s[i0] = v for a 0-based index inside the vector
SetAt(s, i0, v) == [s EXCEPT ![i0 + 1] = v]

(***************************************************************************)
(* Numbers.  An int is a TLC integer (32 bits wide, as the C++ int).  A    *)
(* double is kept as its exact decimal expansion [neg, ip, fp]: sign,      *)
(* integer digits without leading zeros, fraction digits without trailing  *)
(* zeros.  The model only forms doubles whose expansion is exact in binary *)
(* (integers and halves), so that the decimal expansion is the value.      *)
(***************************************************************************)
NA_INTEGER == -2147483647 - 1
NA_LOGICAL == NA_INTEGER

INT32_MAX_DIGITS == <<"2", "1", "4", "7", "4", "8", "3", "6", "4", "7">>
INT32_MIN_DIGITS == <<"2", "1", "4", "7", "4", "8", "3", "6", "4", "8">>
INT64_MAX_DIGITS == <<"9", "2", "2", "3", "3", "7", "2", "0", "3", "6",
                      "8", "5", "4", "7", "7", "5", "8", "0", "7">>
INT64_MIN_DIGITS == <<"9", "2", "2", "3", "3", "7", "2", "0", "3", "6",
                      "8", "5", "4", "7", "7", "5", "8", "0", "8">>

NA_REAL == [neg |-> FALSE, ip |-> <<"N", "A">>, fp |-> <<>>]
NA_STRING == <<"NA_STRING">>

IsDigits(s) == Len(s) > 0 /\ \A i \in 1..Len(s) : IsDigit(s[i])

RECURSIVE StripZeros(_)
StripZeros(d) ==
    IF Len(d) > 1 /\ d[1] = "0" THEN StripZeros(Tail(d)) ELSE d

RECURSIVE StripTrailingZeros(_)
StripTrailingZeros(d) ==
    IF Len(d) > 0 /\ d[Len(d)] = "0"
    THEN StripTrailingZeros(SubSeq(d, 1, Len(d) - 1))
    ELSE d

RECURSIVE LexLE(_, _)
LexLE(a, b) ==
    IF Len(a) = 0 THEN TRUE
    ELSE IF DigitVal(a[1]) < DigitVal(b[1]) THEN TRUE
    ELSE IF DigitVal(a[1]) > DigitVal(b[1]) THEN FALSE
    ELSE LexLE(Tail(a), Tail(b))

\* a <= b for two digit strings without leading zeros
DigLE(a, b) ==
    \/ Len(a) < Len(b)
    \/ Len(a) = Len(b) /\ LexLE(a, b)

\* the value of a digit string, accumulated with the sign so that INT32_MIN
\* is reached without leaving the 32-bit range
RECURSIVE DigitsValue(_, _, _)
DigitsValue(d, neg, acc) ==
    IF Len(d) = 0 THEN acc
    ELSE DigitsValue(Tail(d), neg,
                     IF neg THEN acc * 10 - DigitVal(d[1])
                     ELSE acc * 10 + DigitVal(d[1]))

\* std::from_chars(first, last, int64_t&) followed by the callers' test
\* "ec == errc{} && ptr == last": an optional '-', then digits only, and the
\* magnitude inside the int64 range.
IntFromDigits(neg, body, digs) ==
    IF IsDigits(body)
       /\ DigLE(digs, IF neg THEN INT64_MIN_DIGITS ELSE INT64_MAX_DIGITS)
    THEN [ok |-> TRUE, neg |-> neg /\ digs # <<"0">>, digs |-> digs]
    ELSE [ok |-> FALSE, neg |-> FALSE, digs |-> <<>>]

IntFromChars(text) ==
    IF Len(text) > 0 /\ text[1] = "-"
    THEN IntFromDigits(TRUE, Tail(text), StripZeros(Tail(text)))
    ELSE IntFromDigits(FALSE, text, StripZeros(text))

\* value >= INT32_MIN && value <= INT32_MAX
FitsInt32(r) ==
    DigLE(r.digs, IF r.neg THEN INT32_MIN_DIGITS ELSE INT32_MAX_DIGITS)

IntOf(r) == DigitsValue(r.digs, r.neg, 0)

RECURSIVE NatDigits(_)
NatDigits(n) ==
    IF n < 10 THEN <<Digits[n + 1]>>
    ELSE Append(NatDigits(n \div 10), Digits[(n % 10) + 1])

\* the decimal digits of |v| for a 32-bit v
AbsDigits(v) ==
    IF v = NA_INTEGER THEN INT32_MIN_DIGITS
    ELSE IF v < 0 THEN NatDigits(0 - v)
    ELSE NatDigits(v)

\* std::to_string(int)
IntToString(v) == (IF v < 0 THEN <<"-">> ELSE <<>>) \o AbsDigits(v)

\* static_cast<double>(int)
IntToDouble(v) == [neg |-> v < 0, ip |-> AbsDigits(v), fp |-> <<>>]

Zeros(n) == [i \in 1..n |-> "0"]

\* std::to_string(double): "%f", six fraction digits (the model's doubles
\* have at most six, so no rounding takes place)
DoubleToString(d) ==
    (IF d.neg THEN <<"-">> ELSE <<>>) \o d.ip \o <<".">>
        \o SubSeq(d.fp \o Zeros(6), 1, 6)

\* ostringstream << setprecision(17) << val ("%.17g") for a double with an
\* exact short expansion below 1e17: no trailing zeros, no point for a whole
\* number
Format17(d) ==
    (IF d.neg THEN <<"-">> ELSE <<>>) \o d.ip
        \o (IF Len(d.fp) > 0 THEN <<".">> \o d.fp ELSE <<>>)

\* index of the first character of s at or after i that is not a digit
RECURSIVE SkipDigits(_, _)
SkipDigits(s, i) ==
    IF i <= Len(s) /\ IsDigit(s[i]) THEN SkipDigits(s, i + 1) ELSE i

\* 10^k applied to the expansion: move the point k places to the right
\* (k > 0) or to the left (k < 0)
RECURSIVE ShiftPoint(_, _, _)
ShiftPoint(ip, fp, k) ==
    IF k = 0 THEN [ip |-> ip, fp |-> fp]
    ELSE IF k > 0
    THEN ShiftPoint(Append(ip, IF Len(fp) > 0 THEN fp[1] ELSE "0"),
                    IF Len(fp) > 0 THEN Tail(fp) ELSE fp, k - 1)
    ELSE ShiftPoint(IF Len(ip) > 0 THEN SubSeq(ip, 1, Len(ip) - 1) ELSE ip,
                    <<IF Len(ip) > 0 THEN ip[Len(ip)] ELSE "0">> \o fp, k + 1)

MaxExpDigits == 2   \* exponents of more digits are outside the model

\* the value of the mantissa digits ipd.fpd scaled by 10^k
DoubleValue(neg, sh) ==
    [neg |-> neg,
     ip |-> StripZeros(IF Len(sh.ip) = 0 THEN <<"0">> ELSE sh.ip),
     fp |-> StripTrailingZeros(sh.fp)]

\* the end of the scan: i3..i4-1 are the exponent digits (if hasE), and the
\* text must end at i4
DoubleEnd(neg, s, ipd, fpd, hasE, eneg, i3, i4) ==
    LET expd == IF hasE THEN SubSeq(s, i3, i4 - 1) ELSE <<>>
        expOk == ~hasE \/ (i4 > i3 /\ i4 - i3 <= MaxExpDigits)
    IN  IF Len(ipd) + Len(fpd) > 0 /\ expOk /\ i4 = Len(s) + 1
        THEN [ok |-> TRUE,
              v |-> DoubleValue(neg,
                       ShiftPoint(ipd, fpd,
                                  IF hasE THEN DigitsValue(expd, eneg, 0)
                                  ELSE 0))]
        ELSE [ok |-> FALSE, v |-> NA_REAL]

\* the exponent, from index i2 (the first index after the mantissa)
DoubleExponent(neg, s, ipd, fpd, i2) ==
    LET hasE == i2 <= Len(s) /\ s[i2] \in {"e", "E"}
        sgn == i2 <= Len(s) /\ s[i2] \in {"e", "E"}
               /\ i2 + 1 <= Len(s) /\ s[i2 + 1] \in {"+", "-"}
    IN  IF ~hasE THEN DoubleEnd(neg, s, ipd, fpd, FALSE, FALSE, i2, i2)
        ELSE IF sgn
        THEN DoubleEnd(neg, s, ipd, fpd, TRUE, s[i2 + 1] = "-", i2 + 2,
                       SkipDigits(s, i2 + 2))
        ELSE DoubleEnd(neg, s, ipd, fpd, TRUE, FALSE, i2 + 1,
                       SkipDigits(s, i2 + 1))

\* the fraction, from index i1 (the first index after the integer digits)
DoubleFraction(neg, s, i1, i2) ==
    DoubleExponent(neg, s, SubSeq(s, 1, i1 - 1),
                   SubSeq(s, i1 + 1, i2 - 1), i2)

DoubleMantissa(neg, s, i1) ==
    IF i1 <= Len(s) /\ s[i1] = "."
    THEN DoubleFraction(neg, s, i1, SkipDigits(s, i1 + 1))
    ELSE DoubleExponent(neg, s, SubSeq(s, 1, i1 - 1), <<>>, i1)

\* std::from_chars(first, last, double&) (chars_format::general) followed by
\* the callers' test "ec == errc{} && ptr == last": an optional '-', digits
\* with an optional fraction (at least one digit in all), an optional
\* exponent e[+-]digits.  "inf" and "nan" spellings are not formed by the model.
DoubleFromChars(text) ==
    IF Len(text) > 0 /\ text[1] = "-"
    THEN DoubleMantissa(TRUE, Tail(text), SkipDigits(Tail(text), 1))
    ELSE DoubleMantissa(FALSE, text, SkipDigits(text, 1))

(***************************************************************************)
(* ColBuilder (toon_df.h, toon_df.cpp).  ensure_capacity only reserves     *)
(* storage and is not modelled as state.  na_mask_ is a std::vector<bool>: *)
(* n is its size() and b the bits its storage holds.  The code writes and  *)
(* reads na_mask_[row] at indices >= size() (undefined behaviour): a build *)
(* without container assertions touches the bit in the reserved storage,   *)
(* which b keeps, and a build with them aborts, for which oob is recorded. *)
(***************************************************************************)
ColTypes == <<"UNKNOWN", "LOGICAL", "INTEGER", "DOUBLE", "STRING">>

Rank(t) == CHOOSE i \in 1..5 : ColTypes[i] = t

NewMask == [n |-> 0, b |-> <<>>]

ColBuilder(name) ==
    [name |-> name, type_ |-> "UNKNOWN", size_ |-> 0,
     lgl_data_ |-> <<>>, int_data_ |-> <<>>, dbl_data_ |-> <<>>,
     str_data_ |-> <<>>, na_mask_ |-> NewMask, oob |-> FALSE]

\* na_mask_.resize(n, true): the new bits are set, the old ones kept
MaskResized(m, n) ==
    IF n <= m.n THEN [n |-> n, b |-> m.b]
    ELSE [n |-> n,
          b |-> [i \in 1..Max(n, Len(m.b)) |->
                    IF i <= m.n THEN m.b[i]
                    ELSE IF i <= n THEN TRUE
                    ELSE m.b[i]]]

MaskResize(c, n) == [c EXCEPT !.na_mask_ = MaskResized(@, n)]

\* na_mask_.push_back(true)
MaskPush(c) == MaskResize(c, c.na_mask_.n + 1)

\* na_mask_[i0] = v; at i0 >= size() the bit lands in the reserved storage
\* (rows are filled in order, so i0 is never beyond the bits already held
\* by more than one)
MaskSet(c, i0, v) ==
    LET m == c.na_mask_
        b1 == IF i0 < Len(m.b) THEN m.b ELSE Resize(m.b, i0 + 1, FALSE)
    IN  [c EXCEPT !.na_mask_ = [n |-> m.n, b |-> SetAt(b1, i0, v)],
                  !.oob = @ \/ i0 >= m.n]

\* na_mask_[i0] as a build without assertions reads it
MaskGet(m, i0) == IF i0 < Len(m.b) THEN m.b[i0 + 1] ELSE FALSE

\* some row below size_ is read from the mask at an index >= size()
MaskShort(c) == c.size_ > c.na_mask_.n

promote_to(c, new_type) ==
    LET na(i) == MaskGet(c.na_mask_, i - 1)
        rd == [c EXCEPT !.oob = @ \/ (c.size_ > 0 /\ MaskShort(c))]
        n == c.size_
    IN
    IF new_type = c.type_ THEN c
    ELSE IF new_type = "INTEGER" /\ c.type_ = "LOGICAL"
    THEN [rd EXCEPT !.int_data_ = [i \in 1..n |->
                        IF na(i) THEN NA_INTEGER ELSE c.lgl_data_[i]],
                    !.lgl_data_ = <<>>, !.type_ = new_type]
    ELSE IF new_type = "DOUBLE" /\ c.type_ = "LOGICAL"
    THEN [rd EXCEPT !.dbl_data_ = [i \in 1..n |->
                        IF na(i) THEN NA_REAL ELSE IntToDouble(c.lgl_data_[i])],
                    !.lgl_data_ = <<>>, !.type_ = new_type]
    ELSE IF new_type = "DOUBLE" /\ c.type_ = "INTEGER"
    THEN [rd EXCEPT !.dbl_data_ = [i \in 1..n |->
                        IF na(i) THEN NA_REAL ELSE IntToDouble(c.int_data_[i])],
                    !.int_data_ = <<>>, !.type_ = new_type]
    ELSE IF new_type = "STRING" /\ c.type_ = "LOGICAL"
    THEN [rd EXCEPT !.str_data_ = [i \in 1..n |->
                        IF na(i) THEN <<>>
                        ELSE IF c.lgl_data_[i] # 0 THEN <<"t", "r", "u", "e">>
                        ELSE <<"f", "a", "l", "s", "e">>],
                    !.lgl_data_ = <<>>, !.type_ = new_type]
    ELSE IF new_type = "STRING" /\ c.type_ = "INTEGER"
    THEN [rd EXCEPT !.str_data_ = [i \in 1..n |->
                        IF na(i) THEN <<>> ELSE IntToString(c.int_data_[i])],
                    !.int_data_ = <<>>, !.type_ = new_type]
    ELSE IF new_type = "STRING" /\ c.type_ = "DOUBLE"
    THEN [rd EXCEPT !.str_data_ = [i \in 1..n |->
                        IF na(i) THEN <<>> ELSE DoubleToString(c.dbl_data_[i])],
                    !.dbl_data_ = <<>>, !.type_ = new_type]
    ELSE IF new_type = "STRING"
    THEN [c EXCEPT !.str_data_ = Resize(@, n, <<>>), !.type_ = new_type]
    ELSE [c EXCEPT !.type_ = new_type]

\* a ColBuilder whose force_type does nothing
force_type_ignored(c, t) == c

force_type(c, t) ==
    IF c.type_ = "UNKNOWN" THEN [c EXCEPT !.type_ = t]
    ELSE IF c.type_ # t THEN promote_to(c, t)
    ELSE c

\* the array set_null and finalize use for the current type, and its NA value
ActiveField(t) ==
    CASE t = "INTEGER" -> "int_data_"
      [] t = "DOUBLE" -> "dbl_data_"
      [] t = "STRING" -> "str_data_"
      [] OTHER -> "lgl_data_"

ActiveNA(t) ==
    CASE t = "INTEGER" -> NA_INTEGER
      [] t = "DOUBLE" -> NA_REAL
      [] t = "STRING" -> <<>>
      [] OTHER -> NA_LOGICAL

\* the loop "while (size_ <= row)" of set_null
RECURSIVE SetNullExtend(_, _)
SetNullExtend(c, row) ==
    IF c.size_ <= row
    THEN SetNullExtend(
            [MaskPush(c) EXCEPT ![ActiveField(c.type_)] =
                                    Append(@, ActiveNA(c.type_)),
                                !.size_ = @ + 1], row)
    ELSE c

set_null(c, row) ==
    LET c1 == SetNullExtend(c, row)
        c2 == MaskSet(c1, row, TRUE)
    IN  [c2 EXCEPT ![ActiveField(c.type_)] = SetAt(@, row, ActiveNA(c.type_))]

\* the recurring tail of parse_and_store: resize the typed array, resize the
\* mask (withMask: the branches that store true/false into an INTEGER,
\* DOUBLE or STRING column leave the mask as it is), store, clear the NA bit
Store(c, row, fld, na, v, withMask) ==
    LET c1 == [c EXCEPT ![fld] = Resize(@, row + 1, na)]
        c2 == IF withMask THEN MaskResize(c1, row + 1) ELSE c1
        c3 == [c2 EXCEPT ![fld] = SetAt(@, row, v)]
        c4 == MaskSet(c3, row, FALSE)
    IN  [c4 EXCEPT !.size_ = IF row >= @ THEN row + 1 ELSE @]

\* the unescaping loop of the quoted branch, over the text between the quotes
RECURSIVE ColUnescape(_, _, _)
ColUnescape(q, j, acc) ==
    IF j > Len(q) THEN acc
    ELSE IF q[j] = "\\" /\ j + 1 <= Len(q)
    THEN LET nx == q[j + 1]
         IN  IF nx = "\"" THEN ColUnescape(q, j + 2, Append(acc, "\""))
             ELSE IF nx = "\\" THEN ColUnescape(q, j + 2, Append(acc, "\\"))
             ELSE IF nx = "n" THEN ColUnescape(q, j + 2, Append(acc, "\n"))
             ELSE IF nx = "r" THEN ColUnescape(q, j + 2, Append(acc, "\r"))
             ELSE IF nx = "t" THEN ColUnescape(q, j + 2, Append(acc, "\t"))
             ELSE ColUnescape(q, j + 1, Append(acc, q[j]))
    ELSE ColUnescape(q, j + 1, Append(acc, q[j]))

TRUE_TEXT == <<"t", "r", "u", "e">>
FALSE_TEXT == <<"f", "a", "l", "s", "e">>
NULL_TEXT == <<"n", "u", "l", "l">>

IsQuoted(value) ==
    Len(value) >= 2 /\ value[1] = "\"" /\ value[Len(value)] = "\""

\* the integer test of parse_and_store: no '.', 'e' or 'E', from_chars
\* consumes the whole text, and the value lies in [INT32_MIN, INT32_MAX]
ColIsInteger(value) ==
    /\ ~Contains(value, ".") /\ ~Contains(value, "e") /\ ~Contains(value, "E")
    /\ IntFromChars(value).ok
    /\ FitsInt32(IntFromChars(value))

StoreBool(c, row, bv) ==
    LET txt == IF bv = 1 THEN TRUE_TEXT ELSE FALSE_TEXT IN
    IF c.type_ = "UNKNOWN"
    THEN Store(MaskResize([c EXCEPT !.type_ = "LOGICAL",
                                    !.lgl_data_ = Resize(@, row + 1, NA_LOGICAL)],
                          row + 1),
               row, "lgl_data_", NA_LOGICAL, bv, TRUE)
    ELSE IF c.type_ = "LOGICAL"
    THEN Store(c, row, "lgl_data_", NA_LOGICAL, bv, TRUE)
    ELSE IF c.type_ = "INTEGER"
    THEN Store(c, row, "int_data_", NA_INTEGER, bv, FALSE)
    ELSE IF c.type_ = "DOUBLE"
    THEN Store(c, row, "dbl_data_", NA_REAL, IntToDouble(bv), FALSE)
    ELSE Store(promote_to(c, "STRING"), row, "str_data_", <<>>, txt, FALSE)

StoreInteger(c, row, value) ==
    LET v == IntOf(IntFromChars(value)) IN
    IF c.type_ = "UNKNOWN"
    THEN Store(MaskResize([c EXCEPT !.type_ = "INTEGER",
                                    !.int_data_ = Resize(@, row + 1, NA_INTEGER)],
                          row + 1),
               row, "int_data_", NA_INTEGER, v, TRUE)
    ELSE IF c.type_ = "LOGICAL"
    THEN Store(promote_to(c, "INTEGER"), row, "int_data_", NA_INTEGER, v, TRUE)
    ELSE IF c.type_ = "DOUBLE"
    THEN Store(c, row, "dbl_data_", NA_REAL, IntToDouble(v), TRUE)
    ELSE IF c.type_ = "STRING"
    THEN Store(c, row, "str_data_", <<>>, value, TRUE)
    ELSE Store(c, row, "int_data_", NA_INTEGER, v, TRUE)

StoreDouble(c, row, value) ==
    LET v == DoubleFromChars(value).v IN
    IF c.type_ \in {"UNKNOWN", "LOGICAL", "INTEGER"}
    THEN Store(promote_to(c, "DOUBLE"), row, "dbl_data_", NA_REAL, v, TRUE)
    ELSE IF c.type_ = "STRING"
    THEN Store(c, row, "str_data_", <<>>, value, TRUE)
    ELSE Store(c, row, "dbl_data_", NA_REAL, v, TRUE)

StoreString(c, row, s) ==
    Store(promote_to(c, "STRING"), row, "str_data_", <<>>, s, TRUE)

\* parse_and_store after the trimming loops
StoreValue(c, row, value) ==
    IF value = NULL_TEXT THEN set_null(c, row)
    ELSE IF value = TRUE_TEXT THEN StoreBool(c, row, 1)
    ELSE IF value = FALSE_TEXT THEN StoreBool(c, row, 0)
    ELSE IF IsQuoted(value)
    THEN StoreString(c, row,
                     ColUnescape(SubSeq(value, 2, Len(value) - 1), 1, <<>>))
    ELSE IF ColIsInteger(value) THEN StoreInteger(c, row, value)
    ELSE IF DoubleFromChars(value).ok THEN StoreDouble(c, row, value)
    ELSE StoreString(c, row, value)

parse_and_store(c, row, text) == StoreValue(c, row, trim(text))

set(c, row, value) == parse_and_store(c, row, value)

\* the R vector finalize builds: its type and, per row, the NA value of the
\* type where the mask says NA and the stored value elsewhere
finalize(c) ==
    LET t == IF c.type_ = "UNKNOWN" THEN "LOGICAL" ELSE c.type_
        data == c[ActiveField(t)]
    IN  [name |-> c.name, type |-> t,
         vals |-> [i \in 1..c.size_ |->
                     IF MaskGet(c.na_mask_, i - 1)
                     THEN (IF t = "STRING" THEN NA_STRING ELSE ActiveNA(t))
                     ELSE data[i]]]

(***************************************************************************)
(* The column harness: one ColBuilder, optionally given a forced type, is  *)
(* filled in row order by set / set_null (as TabularParser and RowStreamer *)
(* fill their columns) and then finalised.                                 *)
(***************************************************************************)
INT32_MIN_TEXT == <<"-">> \o INT32_MIN_DIGITS
INT32_OVER_TEXT == <<"2", "1", "4", "7", "4", "8", "3", "6", "4", "8">>

\* the cell texts the harness draws from
CellTexts ==
    { NULL_TEXT, TRUE_TEXT, FALSE_TEXT, <<"7">>, <<" ", "1", "2">>,
      INT32_MIN_TEXT, INT32_OVER_TEXT, <<"1", ".", "5">>, <<"a", "b">>,
      <<"\"", "7", "\"">> }

ForcedTypes == {"LOGICAL", "INTEGER", "DOUBLE", "STRING"}

NoOut == [name |-> <<>>, type |-> "UNKNOWN", vals |-> <<>>]

InitCol ==
    /\ cb = [pc |-> "new", col |-> ColBuilder(<<"c">>), forced |-> "UNKNOWN",
             calls |-> <<>>, out |-> NoOut]
    /\ tab = Idle /\ strm = Idle /\ rt = Idle

CbForceType(t) ==
    /\ cb.pc = "new"
    /\ cb' = [cb EXCEPT !.pc = "fill", !.forced = t,
                        !.col = force_type(cb.col, t)]
    /\ UNCHANGED <<tab, strm, rt>>

CbSet(text) ==
    /\ cb.pc \in {"new", "fill"}
    /\ Len(cb.calls) < MaxCalls
    /\ cb' = [cb EXCEPT !.pc = "fill",
                        !.col = set(cb.col, cb.col.size_, text),
                        !.calls = Append(@, [op |-> "set", text |-> text])]
    /\ UNCHANGED <<tab, strm, rt>>

CbSetNull ==
    /\ cb.pc \in {"new", "fill"}
    /\ Len(cb.calls) < MaxCalls
    /\ cb' = [cb EXCEPT !.pc = "fill",
                        !.col = set_null(cb.col, cb.col.size_),
                        !.calls = Append(@, [op |-> "set_null",
                                             text |-> NULL_TEXT])]
    /\ UNCHANGED <<tab, strm, rt>>

CbFinalize ==
    /\ cb.pc \in {"new", "fill"}
    /\ cb' = [cb EXCEPT !.pc = "done", !.out = finalize(cb.col)]
    /\ UNCHANGED <<tab, strm, rt>>

\* a build with container assertions stops at the first access to
\* na_mask_ beyond its size
CbAbort ==
    /\ cb.pc = "fill"
    /\ cb.col.oob \/ MaskShort(cb.col)
    /\ cb' = [cb EXCEPT !.pc = "aborted"]
    /\ UNCHANGED <<tab, strm, rt>>

NextCol ==
    \/ \E t \in ForcedTypes : CbForceType(t)
    \/ \E text \in CellTexts : CbSet(text)
    \/ CbSetNull
    \/ CbFinalize
    \/ CbAbort

SpecCol == InitCol /\ [][NextCol]_vars

(***************************************************************************)
(* Properties of the column builder.                                       *)
(***************************************************************************)
Join(a, b) == IF Rank(a) >= Rank(b) THEN a ELSE b

\* the type a single cell text is observed as
ObservedTrimmed(value) ==
    IF value = NULL_TEXT THEN "UNKNOWN"
    ELSE IF value \in {TRUE_TEXT, FALSE_TEXT} THEN "LOGICAL"
    ELSE IF IsQuoted(value) THEN "STRING"
    ELSE IF ColIsInteger(value) THEN "INTEGER"
    ELSE IF DoubleFromChars(value).ok THEN "DOUBLE"
    ELSE "STRING"

ObservedType(text) == ObservedTrimmed(trim(text))

RECURSIVE JoinOfCalls(_, _)
JoinOfCalls(calls, acc) ==
    IF Len(calls) = 0 THEN acc
    ELSE JoinOfCalls(Tail(calls), Join(acc, ObservedType(calls[1].text)))

OnlyNulls(calls) ==
    \A i \in 1..Len(calls) : ObservedType(calls[i].text) = "UNKNOWN"

NAOf(t) == IF t = "STRING" THEN NA_STRING ELSE ActiveNA(t)

\* the values a cell text may have after conversion to a column type
ConvertedAs(value, o, t, bv) ==
    IF o = "UNKNOWN" THEN {NAOf(t)}
    ELSE IF Rank(t) < Rank(o) THEN {}
    ELSE IF o = "LOGICAL"
    THEN (IF t = "DOUBLE" THEN {IntToDouble(bv)}
          ELSE IF t = "STRING" THEN {value}
          ELSE {bv})
    ELSE IF o = "INTEGER"
    THEN (IF t = "INTEGER" THEN {IntOf(IntFromChars(value))}
          ELSE IF t = "DOUBLE"
          THEN {IntToDouble(IntOf(IntFromChars(value)))}
          ELSE {value, IntToString(IntOf(IntFromChars(value)))})
    ELSE IF o = "DOUBLE"
    THEN (IF t = "DOUBLE" THEN {DoubleFromChars(value).v}
          ELSE {value, DoubleToString(DoubleFromChars(value).v)})
    ELSE IF IsQuoted(value)
    THEN {ColUnescape(SubSeq(value, 2, Len(value) - 1), 1, <<>>)}
    ELSE {value}

Converted(text, t) ==
    ConvertedAs(trim(text), ObservedType(text), t,
                IF trim(text) = TRUE_TEXT THEN 1 ELSE 0)

\* C5: every row of a column filled in order holds its text converted to the
\* final type, non-NA when the text was not null and NA when it was null.
\* (The text -2147483648, whose int value is the NA_INTEGER bit pattern, is
\* left out here: it is a separate matter.)
C5_ValuePreserved ==
    cb.pc = "done" =>
        /\ Len(cb.out.vals) = Len(cb.calls)
        /\ \A i \in 1..Len(cb.calls) :
              trim(cb.calls[i].text) # INT32_MIN_TEXT =>
                 /\ cb.out.vals[i] \in Converted(cb.calls[i].text, cb.out.type)
                 /\ ObservedType(cb.calls[i].text) # "UNKNOWN"
                       => cb.out.vals[i] # NAOf(cb.out.type)

\* C6: the finalised type of a column is the join of its forced type and of
\* the types observed for its non-null values (LOGICAL when that join is
\* UNKNOWN); a column without forced type that saw only nulls is all NA.
C6_TypeIsJoin ==
    cb.pc = "done" =>
        LET j == JoinOfCalls(cb.calls, cb.forced) IN
        /\ cb.out.type = (IF j = "UNKNOWN" THEN "LOGICAL" ELSE j)
        /\ (cb.forced = "UNKNOWN" /\ OnlyNulls(cb.calls)) =>
              /\ cb.out.type = "LOGICAL"
              /\ Len(cb.out.vals) = Len(cb.calls)
              /\ \A i \in 1..Len(cb.out.vals) : cb.out.vals[i] = NA_LOGICAL

\* a forced INTEGER column that saw true, a null and 1.5 finalised as DOUBLE
C6_Witness ==
    /\ cb.pc = "done"
    /\ cb.forced = "INTEGER"
    /\ Len(cb.calls) = 3
    /\ cb.calls[1].text = TRUE_TEXT
    /\ cb.calls[2].op = "set_null"
    /\ cb.calls[3].text = <<"1", ".", "5">>
    /\ cb.out.type = "DOUBLE"

(***************************************************************************)
(* TabularParser (toon_df.cpp).  The input is the sequence of lines the    *)
(* BufferedReader delivers.  RowStreamer (toon_stream.cpp) carries its own *)
(* copies of trim, parse_header and split_row with the same text; the      *)
(* model uses one operator for both.                                       *)
(***************************************************************************)
SIZE_MAX == 2147483647   \* stands for SIZE_MAX: above every size in the model

\* first index of c in s at or after position from, 0 when there is none
IndexFrom(s, c, from) ==
    IF \E i \in from..Len(s) : s[i] = c
    THEN CHOOSE i \in from..Len(s) :
            s[i] = c /\ \A j \in from..(i - 1) : s[j] # c
    ELSE 0

\* "#..." and "//..." lines
IsCommentLine(t) ==
    Len(t) > 0 /\ (t[1] = "#" \/ (Len(t) >= 2 /\ t[1] = "/" /\ t[2] = "/"))

\* the fields of "f1,f2,..." that are not empty after trimming; comma is
\* the index of the first ',' (0: none)
RECURSIVE HeaderFieldsAt(_, _)
HeaderFieldsAt(fields_str, comma) ==
    IF Len(fields_str) = 0 THEN <<>>
    ELSE IF comma # 0
    THEN (IF Len(trim(SubSeq(fields_str, 1, comma - 1))) > 0
          THEN <<trim(SubSeq(fields_str, 1, comma - 1))>> ELSE <<>>)
         \o HeaderFieldsAt(SubSeq(fields_str, comma + 1, Len(fields_str)),
                           IndexFrom(SubSeq(fields_str, comma + 1,
                                            Len(fields_str)), ",", 1))
    ELSE (IF Len(trim(fields_str)) > 0 THEN <<trim(fields_str)>> ELSE <<>>)

HeaderFields(fields_str) ==
    HeaderFieldsAt(fields_str, IndexFrom(fields_str, ",", 1))

HeaderResult(ok, n, names) ==
    [ok |-> ok /\ Len(names) > 0, declared_rows_ |-> n, field_names_ |-> names]

\* parse_header after the digits: pos is the 1-based index behind them and
\* n the row count they spell
HeaderAfterCount(header, pos, n) ==
    IF pos > Len(header) \/ header[pos] # "]" THEN HeaderResult(FALSE, n, <<>>)
    ELSE IF pos + 1 > Len(header) \/ header[pos + 1] # "{"
    THEN HeaderResult(FALSE, n, <<>>)
    ELSE IF IndexFrom(header, "}", pos + 2) = 0
    THEN HeaderResult(FALSE, n, <<>>)
    ELSE HeaderResult(TRUE, n,
            HeaderFields(SubSeq(header, pos + 2,
                                IndexFrom(header, "}", pos + 2) - 1)))

HeaderTrimmed(header, pos) ==
    IF Len(header) = 0 \/ header[1] # "[" THEN HeaderResult(FALSE, 0, <<>>)
    ELSE HeaderAfterCount(header, pos,
            IF pos > 2
            THEN DigitsValue(StripZeros(SubSeq(header, 2, pos - 1)), FALSE, 0)
            ELSE 0)

\* parse_header up to the field names: [ok, declared_rows_, field_names_]
HeaderParts(text) == HeaderTrimmed(trim(text), SkipDigits(trim(text), 2))

\* the least element of a non-empty set of numbers, 0 for the empty set
MinOf(S) == IF S = {} THEN 0 ELSE CHOOSE i \in S : \A j \in S : i <= j

\* force_type on the column at position first, if there is one
ForceAt(columns, first, t) ==
    [i \in 1..Len(columns) |->
        IF i = first THEN force_type(columns[i], t) ELSE columns[i]]

\* the loop applying opts_.col_types: each entry forces the first column
\* of that name
RECURSIVE ApplyColTypes(_, _)
ApplyColTypes(columns, col_types) ==
    IF Len(col_types) = 0 THEN columns
    ELSE ApplyColTypes(
            ForceAt(columns,
                    MinOf({i \in 1..Len(columns) :
                              columns[i].name = col_types[1].name}),
                    col_types[1].type),
            Tail(col_types))

NewColumns(names) == [i \in 1..Len(names) |-> ColBuilder(names[i])]

\* the scan of split_row from 1-based position i
RECURSIVE SplitScan(_, _, _, _, _, _, _)
SplitScan(line, delimiter, i, start, in_string, escape, fields) ==
    IF i > Len(line)
    THEN Append(fields, trim(SubSeq(line, start, Len(line))))
    ELSE LET c == line[i] IN
         IF escape
         THEN SplitScan(line, delimiter, i + 1, start, in_string, FALSE, fields)
         ELSE IF c = "\\" /\ in_string
         THEN SplitScan(line, delimiter, i + 1, start, in_string, TRUE, fields)
         ELSE IF c = "\""
         THEN SplitScan(line, delimiter, i + 1, start, ~in_string, FALSE,
                        fields)
         ELSE IF ~in_string /\ c = delimiter
         THEN SplitScan(line, delimiter, i + 1, i + 1, in_string, FALSE,
                        Append(fields, trim(SubSeq(line, start, i - 1))))
         ELSE SplitScan(line, delimiter, i + 1, start, in_string, FALSE, fields)

\* a split at every delimiter, quoted or not
RECURSIVE SplitPlain(_, _, _, _, _)
SplitPlain(line, delimiter, i, start, fields) ==
    IF i > Len(line)
    THEN Append(fields, trim(SubSeq(line, start, Len(line))))
    ELSE IF line[i] = delimiter
    THEN SplitPlain(line, delimiter, i + 1, i + 1,
                    Append(fields, trim(SubSeq(line, start, i - 1))))
    ELSE SplitPlain(line, delimiter, i + 1, start, fields)

split_row_plain(line, delimiter) == SplitPlain(line, delimiter, 1, 1, <<>>)

split_row(line, delimiter) ==
    SplitScan(line, delimiter, 1, 1, FALSE, FALSE, <<>>)

\* number of leading ' ' and '\t' characters
RECURSIVE CountIndent(_)
CountIndent(line) ==
    IF Len(line) > 0 /\ line[1] \in {" ", "\t"}
    THEN 1 + CountIndent(Tail(line))
    ELSE 0

\* a tab among the leading blanks
TabInIndent(line) ==
    \E i \in 1..CountIndent(line) : line[i] = "\t"

\* the trailing-comment loop of parse_rows: cut at the first '#' outside
\* double quotes
RECURSIVE CommentScan(_, _, _)
CommentScan(content, i, in_string) ==
    IF i > Len(content) THEN content
    ELSE LET ins == IF content[i] = "\"" THEN ~in_string ELSE in_string IN
         IF ~ins /\ content[i] = "#"
         THEN trim(SubSeq(content, 1, i - 1))
         ELSE CommentScan(content, i + 1, ins)

RowOfContent(content, allow_comments) ==
    IF Len(content) = 0 THEN [skip |-> TRUE, content |-> content]
    ELSE IF allow_comments /\ IsCommentLine(content)
    THEN [skip |-> TRUE, content |-> content]
    ELSE [skip |-> FALSE,
          content |-> IF allow_comments THEN CommentScan(content, 1, FALSE)
                      ELSE content]

\* what parse_rows makes of one line: skipped, or the content of a row
RowContent(line, allow_comments) ==
    RowOfContent(trim(SubSeq(line, CountIndent(line) + 1, Len(line))),
                 allow_comments)

IsHeaderText(trimmed, allow_comments) ==
    /\ Len(trimmed) > 0
    /\ ~(allow_comments /\ IsCommentLine(trimmed))
    /\ trimmed[1] = "["
    /\ Contains(trimmed, "{") /\ Contains(trimmed, "}")

\* a line find_tabular_array takes for the header: not blank, not a
\* comment, starting with '[' and holding both '{' and '}'
IsHeaderCandidate(line, allow_comments) ==
    IsHeaderText(trim(line), allow_comments)

\* find_tabular_array without a key: index of the header line, 0 if none
find_tabular_array(lines, allow_comments) ==
    MinOf({i \in 1..Len(lines) : IsHeaderCandidate(lines[i], allow_comments)})

\* std::optional<std::string> key
nullopt == [has_value |-> FALSE, value |-> <<>>]

Key(text) == [has_value |-> TRUE, value |-> text]

\* the key loop at the line trimmed, colon being the index of its first ':'
\* (0 if it has none): whether the line is the "key:" line looked for
IsKeyLine(trimmed, colon, key, allow_comments) ==
    /\ Len(trimmed) > 0
    /\ ~(allow_comments /\ IsCommentLine(trimmed))
    /\ colon # 0
    /\ trim(SubSeq(trimmed, 1, colon - 1)) = key

\* the key loop of find_tabular_array and find_tabular_header from line i
\* on: the index of the first line whose text before its first ':' is the
\* key (0 if there is none) and the text after that ':'
RECURSIVE find_key(_, _, _, _)
find_key(lines, i, key, allow_comments) ==
    IF i > Len(lines) THEN [idx |-> 0, value |-> <<>>]
    ELSE IF IsKeyLine(trim(lines[i]), IndexFrom(trim(lines[i]), ":", 1),
                      key, allow_comments)
    THEN [idx |-> i,
          value |-> trim(SubSeq(trim(lines[i]),
                                IndexFrom(trim(lines[i]), ":", 1) + 1,
                                Len(trim(lines[i]))))]
    ELSE find_key(lines, i + 1, key, allow_comments)

\* the outcome of find_tabular_array: the index of the line the header is
\* on (0 if none), the header text, and the error thrown, "" if none
Located(lines, idx) ==
    [idx |-> idx,
     header |-> IF idx = 0 THEN <<>> ELSE trim(lines[idx]),
     err |-> IF idx = 0 THEN "No tabular array found" ELSE ""]

\* the header loop from line from on
HeaderFrom(lines, from, allow_comments) ==
    MinOf({i \in from..Len(lines) :
              IsHeaderCandidate(lines[i], allow_comments)})

\* find_tabular_array with a key, k being the outcome of the key loop
KeyedArray(lines, k, allow_comments) ==
    IF k.idx = 0 THEN [idx |-> 0, header |-> <<>>, err |-> "Key not found"]
    ELSE IF Len(k.value) > 0 /\ k.value[1] = "["
    THEN [idx |-> k.idx, header |-> k.value, err |-> ""]
    ELSE Located(lines, HeaderFrom(lines, k.idx + 1, allow_comments))

\* find_tabular_array under the options opts
TableHeader(lines, opts) ==
    IF opts.key.has_value
    THEN KeyedArray(lines,
                    find_key(lines, 1, opts.key.value, opts.allow_comments),
                    opts.allow_comments)
    ELSE Located(lines, find_tabular_array(lines, opts.allow_comments))

\* the columns set_null has filled for rows 0..rows-1 of a new column
RECURSIVE Backfill(_, _, _)
Backfill(col, r, rows) ==
    IF r < rows THEN Backfill(set_null(col, r), r + 1, rows) ELSE col

VName(i) == <<"V">> \o NatDigits(i)

\* the expansion loop: columns V<i> for the 1-based positions above the
\* current width up to n_fields, each backfilled with NA
RECURSIVE ExpandSchema(_, _, _)
ExpandSchema(columns, n_fields, rows) ==
    IF Len(columns) >= n_fields THEN columns
    ELSE ExpandSchema(
            Append(columns,
                   Backfill(ColBuilder(VName(Len(columns) + 1)), 0, rows)),
            n_fields, rows)

\* a store loop that leaves out the columns a short row does not reach
StoreRowSkipShort(columns, fields, row) ==
    [i \in 1..Len(columns) |->
        IF i <= Len(fields) THEN set(columns[i], row, fields[i])
        ELSE columns[i]]

\* the "Store values" loop
StoreRow(columns, fields, row) ==
    [i \in 1..Len(columns) |->
        IF i <= Len(fields) THEN set(columns[i], row, fields[i])
        ELSE set_null(columns[i], row)]

ColumnNames(columns) == [i \in 1..Len(columns) |-> columns[i].name]

\* the end of parse_row_line: cols1 is the expanded schema
StoreExpanded(st, columns, cols1, fields, row) ==
    [st |-> IF Len(cols1) > Len(columns)
            THEN [st EXCEPT
                    !.schema_expansions_ = @ + Len(cols1) - Len(columns),
                    !.field_names_ =
                        @ \o SubSeq(ColumnNames(cols1),
                                    Len(columns) + 1, Len(cols1))]
            ELSE st,
     columns |-> StoreRow(cols1, fields, row)]

\* a parse_row_line that expands the schema whatever max_extra_cols is
StoreFieldsUncapped(st, columns, fields, row) ==
    IF Len(fields) # Len(columns) /\ st.opts.ragged_rows = "error"
    THEN [st |-> [st EXCEPT !.err = "ragged_rows",
                            !.min_fields_ = Min(@, Len(fields)),
                            !.max_fields_ = Max(@, Len(fields))],
          columns |-> columns]
    ELSE StoreExpanded([st EXCEPT !.min_fields_ = Min(@, Len(fields)),
                                  !.max_fields_ = Max(@, Len(fields))],
                       columns, ExpandSchema(columns, Len(fields), row),
                       fields, row)

\* parse_row_line after split_row
StoreFields(st, columns, fields, row) ==
    IF Len(fields) # Len(columns) /\ st.opts.ragged_rows = "error"
    THEN [st |-> [st EXCEPT !.err = "ragged_rows",
                            !.min_fields_ = Min(@, Len(fields)),
                            !.max_fields_ = Max(@, Len(fields))],
          columns |-> columns]
    ELSE IF Len(fields) > Len(columns)
            /\ st.schema_expansions_ + Len(fields) - Len(columns)
                  > st.opts.max_extra_cols
    THEN [st |-> [st EXCEPT !.err = "max_extra_cols",
                            !.min_fields_ = Min(@, Len(fields)),
                            !.max_fields_ = Max(@, Len(fields))],
          columns |-> columns]
    ELSE StoreExpanded([st EXCEPT !.min_fields_ = Min(@, Len(fields)),
                                  !.max_fields_ = Max(@, Len(fields))],
                       columns, ExpandSchema(columns, Len(fields), row),
                       fields, row)

\* parse_row_line on the state st of a run (schema_expansions_,
\* min_fields_, max_fields_, the options) and its columns, storing into row
\* number row.  The result has st.err # "" when the parser throws.
parse_row_line(st, columns, line, row) ==
    StoreFields(st, columns, split_row(line, ","), row)

\* build_dataframe: the finalised columns
build_dataframe(columns, nrow) ==
    [i \in 1..Len(columns) |-> finalize(columns[i])]

\* the warnings both readers append after the last row
EndWarnings(st) ==
    (IF st.declared_rows_ > 0 /\ st.observed_rows_ # st.declared_rows_
        /\ st.opts.n_mismatch # "error" /\ st.opts.warn
     THEN <<"n_mismatch">> ELSE <<>>)
    \o (IF st.min_fields_ # st.max_fields_ /\ st.opts.warn
        THEN <<"ragged_rows">> ELSE <<>>)

AnyOob(columns) ==
    \E i \in 1..Len(columns) : columns[i].oob \/ MaskShort(columns[i])

\* the location a ParseError carries: its line, its column and its snippet
\* (0, 0 and "" where the throw site gives none)
ParseError(line, column, snippet) ==
    [line |-> line, column |-> column, snippet |-> snippet]

(***************************************************************************)
(* A read_table run: TabularParser::parse_file, one line per step.         *)
(***************************************************************************)
MaxRows == 3       \* lines after the header in an input
MaxBatch == 2      \* largest batch_size

\* the header and the lines the inputs are made of
HeaderLine == <<"[", "2", "]", "{", "a", ",", "b", "}", ":">>

RowLines ==
    { <<" ", " ", "1", ",", "x">>,
      <<" ", " ", "t", "r", "u", "e">>,
      <<" ", " ", "7", ",", "2", ",", "n", "u", "l", "l", ",", "3">>,
      <<" ", " ", "#", "c">>,
      <<" ", " ", "\"", "a", ",", "b", "\"", ",", "1", ".", "5", " ", "#", "t">> }

RowSeqs == UNION {[1..n -> RowLines] : n \in 0..MaxRows}

ColTypeOpts == { <<>>, <<[name |-> <<"a">>, type |-> "STRING"]>> }

Options(col_types, ragged_rows) ==
    [strict |-> TRUE, allow_comments |-> TRUE, warn |-> TRUE,
     ragged_rows |-> ragged_rows, n_mismatch |-> "warn",
     max_extra_cols |-> SIZE_MAX, key |-> nullopt, col_types |-> col_types]

TabularParser(lines, opts) ==
    [pc |-> "start", input |-> lines, lines |-> lines, line_no |-> 0,
     opts |-> opts, field_names_ |-> <<>>, columns_ |-> <<>>, declared_rows_ |-> 0,
     observed_rows_ |-> 0, min_fields_ |-> SIZE_MAX, max_fields_ |-> 0,
     schema_expansions_ |-> 0, warnings_ |-> <<>>, err |-> "",
     err_at |-> ParseError(0, 0, <<>>), out |-> <<>>]

\* find_tabular_array and parse_header
TabOpen ==
    /\ tab.pc = "start"
    /\ \E h \in {TableHeader(tab.lines, tab.opts)} :
          IF h.err # ""
          THEN tab' = [tab EXCEPT !.pc = "error", !.lines = <<>>,
                                  !.line_no = Len(tab.lines),
                                  !.err = h.err]
          ELSE \E parts \in {HeaderParts(h.header)} :
                 tab' = [tab EXCEPT
                          !.pc = IF parts.ok THEN "rows" ELSE "error",
                          !.err = IF parts.ok THEN ""
                                  ELSE "Invalid tabular header",
                          !.err_at = IF parts.ok THEN @
                                     ELSE ParseError(h.idx, 0, h.header),
                          !.lines = SubSeq(@, h.idx + 1, Len(@)),
                          !.line_no = h.idx,
                          !.declared_rows_ = parts.declared_rows_,
                          !.field_names_ = parts.field_names_,
                          !.columns_ = ApplyColTypes(
                                          NewColumns(parts.field_names_),
                                          tab.opts.col_types)]
    /\ UNCHANGED <<cb, strm, rt>>

\* one round of the loop of parse_rows (base_indent is -1: no dedent)
TabRow ==
    /\ tab.pc = "rows"
    /\ tab.lines # <<>>
    /\ \E line \in {Head(tab.lines)},
          nx \in {[tab EXCEPT !.lines = Tail(@), !.line_no = @ + 1]} :
          \E rc \in {RowContent(line, tab.opts.allow_comments)} :
             IF tab.opts.strict /\ TabInIndent(line)
             THEN tab' = [nx EXCEPT !.pc = "error",
                            !.err = "Tab characters not allowed in indentation",
                            !.err_at = ParseError(nx.line_no, 0, <<>>)]
             ELSE IF rc.skip THEN tab' = nx
             ELSE \E r \in {parse_row_line(nx, tab.columns_, rc.content,
                                           tab.observed_rows_)} :
                     IF r.st.err # ""
                     THEN tab' = [r.st EXCEPT
                                    !.pc = "error",
                                    !.err_at = ParseError(nx.line_no, 0, <<>>)]
                     ELSE tab' = [r.st EXCEPT !.columns_ = r.columns,
                                              !.observed_rows_ = @ + 1]
    /\ UNCHANGED <<cb, strm, rt>>

\* after the last line: the row-count check, the warnings, build_dataframe
TabFinish ==
    /\ tab.pc = "rows"
    /\ tab.lines = <<>>
    /\ IF tab.declared_rows_ > 0 /\ tab.observed_rows_ # tab.declared_rows_
          /\ tab.opts.n_mismatch = "error"
       THEN tab' = [tab EXCEPT !.pc = "error", !.err = "n_mismatch"]
       ELSE tab' = [tab EXCEPT
                      !.pc = "done",
                      !.warnings_ = @ \o EndWarnings(tab),
                      !.out = build_dataframe(tab.columns_,
                                              tab.observed_rows_)]
    /\ UNCHANGED <<cb, strm, rt>>

\* a build with container assertions stops at the first access to a
\* na_mask_ beyond its size
TabAbort ==
    /\ tab.pc = "rows"
    /\ AnyOob(tab.columns_)
    /\ tab' = [tab EXCEPT !.pc = "aborted"]
    /\ UNCHANGED <<cb, strm, rt>>

(***************************************************************************)
(* A stream_rows run: RowStreamer::stream, one line per step.  The batch   *)
(* callback is the caller's: it returns or raises an R error.  batches is  *)
(* the record of the callback invocations; pending holds the line numbers  *)
(* of the rows in the current batch.  The R_CheckUserInterrupt call every  *)
(* 10000 rows is modelled apart, in SpecProbe.  R runs one call at a time: *)
(* a stream_rows call takes its steps while no read_table call is under    *)
(* way.                                                                    *)
(***************************************************************************)
NoCallUnderWay == tab.pc \in {"idle", "done", "error", "aborted"}

RowStreamer(lines, opts, batch_size, outcomes) ==
    [pc |-> "start", input |-> lines, lines |-> lines, line_no |-> 0,
     opts |-> opts, batch_size |-> batch_size, outcomes |-> outcomes,
     field_names_ |-> <<>>, batch_columns_ |-> <<>>, batch_rows_ |-> 0,
     declared_rows_ |-> 0, observed_rows_ |-> 0,
     min_fields_ |-> SIZE_MAX, max_fields_ |-> 0,
     schema_expansions_ |-> 0, warnings_ |-> <<>>, err |-> "",
     pending |-> <<>>, batches |-> <<>>]

\* find_tabular_header without a key: the first candidate line that
\* parse_header accepts; a rejected candidate may leave its row count
\* in declared_rows_
\* the row count a candidate header leaves in declared_rows_
CountAfter(header, declared) ==
    IF SkipDigits(header, 2) > 2
    THEN DigitsValue(StripZeros(SubSeq(header, 2, SkipDigits(header, 2) - 1)),
                     FALSE, 0)
    ELSE declared

RECURSIVE find_tabular_header(_, _, _, _)
find_tabular_header(lines, i, allow_comments, declared) ==
    IF i > Len(lines)
    THEN [idx |-> 0, declared_rows_ |-> declared, field_names_ |-> <<>>]
    ELSE IF ~IsHeaderCandidate(lines[i], allow_comments)
    THEN find_tabular_header(lines, i + 1, allow_comments, declared)
    ELSE IF HeaderParts(lines[i]).ok
    THEN [idx |-> i,
          declared_rows_ |-> CountAfter(trim(lines[i]), declared),
          field_names_ |-> HeaderParts(lines[i]).field_names_]
    ELSE find_tabular_header(lines, i + 1, allow_comments,
                             CountAfter(trim(lines[i]), declared))

\* find_tabular_header with a key, k being the outcome of the key loop: an
\* inline value starting with '[' is the header if parse_header accepts it;
\* otherwise the header loop goes on behind the key line
KeyedHeader(lines, k, allow_comments) ==
    IF k.idx = 0
    THEN [idx |-> 0, declared_rows_ |-> 0, field_names_ |-> <<>>,
          err |-> "Key not found"]
    ELSE IF Len(k.value) > 0 /\ k.value[1] = "[" /\ HeaderParts(k.value).ok
    THEN [idx |-> k.idx, declared_rows_ |-> CountAfter(k.value, 0),
          field_names_ |-> HeaderParts(k.value).field_names_, err |-> ""]
    ELSE find_tabular_header(lines, k.idx + 1, allow_comments,
            IF Len(k.value) > 0 /\ k.value[1] = "["
            THEN CountAfter(k.value, 0) ELSE 0)
         @@ [err |-> ""]

\* find_tabular_header under the options opts; idx is 0 and err is "" when
\* it returns false
StreamHeader(lines, opts) ==
    IF opts.key.has_value
    THEN KeyedHeader(lines,
                     find_key(lines, 1, opts.key.value, opts.allow_comments),
                     opts.allow_comments)
    ELSE find_tabular_header(lines, 1, opts.allow_comments, 0)
         @@ [err |-> ""]

\* a batch test that lets one more row in
BatchOver(batch_rows, batch_size) == batch_rows > batch_size

\* "batch_rows_ >= opts_.batch_size"
BatchFull(batch_rows, batch_size) == batch_rows >= batch_size

\* the callback invocation on the current batch: R_tryEval runs the
\* callback and its error indicator is not looked at
Emit(st, columns, rows, pending, ok) ==
    Append(st.batches,
           [df |-> build_dataframe(columns, rows), n |-> rows,
            lines |-> pending, failed |-> ~ok])

StrmOpen ==
    /\ strm.pc = "start"
    /\ NoCallUnderWay
    /\ \E f \in {StreamHeader(strm.lines, strm.opts)} :
          IF f.idx = 0
          THEN strm' = [strm EXCEPT !.pc = "error", !.lines = <<>>,
                                    !.line_no = Len(strm.lines),
                                    !.declared_rows_ = f.declared_rows_,
                                    !.err = IF f.err # "" THEN f.err
                                            ELSE "No tabular array found"]
          ELSE strm' = [strm EXCEPT
                          !.pc = "rows",
                          !.lines = SubSeq(@, f.idx + 1, Len(@)),
                          !.line_no = f.idx,
                          !.declared_rows_ = f.declared_rows_,
                          !.field_names_ = f.field_names_,
                          !.batch_columns_ = ApplyColTypes(
                                                NewColumns(f.field_names_),
                                                strm.opts.col_types)]
    /\ UNCHANGED <<cb, tab, rt>>

\* one round of the row loop; ok is the outcome of the callback if the
\* batch becomes full
StrmRow(ok) ==
    /\ strm.pc = "rows"
    /\ NoCallUnderWay
    /\ strm.lines # <<>>
    /\ \E nx \in {[strm EXCEPT !.lines = Tail(@), !.line_no = @ + 1]},
          rc \in {RowContent(Head(strm.lines), strm.opts.allow_comments)} :
          IF rc.skip THEN strm' = nx
          ELSE \E r \in {parse_row_line(nx, strm.batch_columns_, rc.content,
                                        strm.batch_rows_)} :
             IF r.st.err # "" THEN strm' = [r.st EXCEPT !.pc = "error"]
             ELSE \E st \in {[r.st EXCEPT !.observed_rows_ = @ + 1]},
                     rows \in {strm.batch_rows_ + 1},
                     pend \in {Append(strm.pending, nx.line_no)} :
                IF BatchFull(rows, strm.batch_size)
                THEN strm' = [st EXCEPT
                                !.batches = Emit(st, r.columns, rows, pend, ok),
                                !.batch_columns_ = NewColumns(st.field_names_),
                                !.batch_rows_ = 0,
                                !.pending = <<>>]
                ELSE strm' = [st EXCEPT !.batch_columns_ = r.columns,
                                        !.batch_rows_ = rows,
                                        !.pending = pend]
    /\ UNCHANGED <<cb, tab, rt>>

\* after the last line: the final batch, the row-count check, the warnings
StrmFinish(ok) ==
    /\ strm.pc = "rows"
    /\ NoCallUnderWay
    /\ strm.lines = <<>>
    /\ \E st \in {IF strm.batch_rows_ > 0
                  THEN [strm EXCEPT
                          !.batches = Emit(strm, strm.batch_columns_,
                                           strm.batch_rows_, strm.pending, ok),
                          !.pending = <<>>]
                  ELSE strm} :
          IF st.declared_rows_ > 0 /\ st.observed_rows_ # st.declared_rows_
             /\ st.opts.n_mismatch = "error"
          THEN strm' = [st EXCEPT !.pc = "error", !.err = "n_mismatch"]
          ELSE strm' = [st EXCEPT !.pc = "done",
                                  !.warnings_ = @ \o EndWarnings(st)]
    /\ UNCHANGED <<cb, tab, rt>>

StrmAbort ==
    /\ strm.pc = "rows"
    /\ NoCallUnderWay
    /\ AnyOob(strm.batch_columns_)
    /\ strm' = [strm EXCEPT !.pc = "aborted"]
    /\ UNCHANGED <<cb, tab, rt>>

(***************************************************************************)
(* read_table and stream_rows on the same input and options.               *)
(***************************************************************************)
InitTable ==
    /\ \E rows \in RowSeqs, ct \in ColTypeOpts,
          rr \in {"expand_warn", "error"}, bs \in 1..MaxBatch :
          /\ tab = TabularParser(<<HeaderLine>> \o rows, Options(ct, rr))
          /\ strm = RowStreamer(<<HeaderLine>> \o rows, Options(ct, rr), bs,
                                {TRUE})
    /\ cb = Idle /\ rt = Idle

NextTable ==
    \/ TabOpen \/ TabRow \/ TabFinish \/ TabAbort
    \/ StrmOpen
    \/ \E ok \in strm.outcomes : StrmRow(ok)
    \/ \E ok \in strm.outcomes : StrmFinish(ok)
    \/ StrmAbort

SpecTable == InitTable /\ [][NextTable]_vars

(***************************************************************************)
(* stream_rows alone, with a callback that may fail.                       *)
(***************************************************************************)
InitStream ==
    /\ \E rows \in RowSeqs, ct \in ColTypeOpts,
          rr \in {"expand_warn", "error"}, bs \in 1..MaxBatch :
          strm = RowStreamer(<<HeaderLine>> \o rows, Options(ct, rr), bs,
                             BOOLEAN)
    /\ cb = Idle /\ tab = Idle /\ rt = Idle

NextStream ==
    \/ StrmOpen
    \/ \E ok \in strm.outcomes : StrmRow(ok)
    \/ \E ok \in strm.outcomes : StrmFinish(ok)
    \/ StrmAbort

SpecStream == InitStream /\ [][NextStream]_vars

(***************************************************************************)
(* Properties of read_table and stream_rows.                               *)
(***************************************************************************)
\* the data rows of an input: line number and content of every line after
\* the header that is neither blank nor a comment
RECURSIVE DataRowsFrom(_, _)
DataRowsFrom(input, i) ==
    IF i > Len(input) THEN <<>>
    ELSE LET rc == RowContent(input[i], TRUE) IN
         (IF rc.skip THEN <<>>
          ELSE <<[line_no |-> i, width |-> Len(split_row(rc.content, ","))]>>)
         \o DataRowsFrom(input, i + 1)

DataRows(input) == DataRowsFrom(input, find_tabular_array(input, TRUE) + 1)

IsNA(col, r) == col.vals[r] = NAOf(col.type)

\* C7: under expand_warn, after any number of ingested rows every column has
\* one entry per ingested row, a synthesised column is NA in every row below
\* the row that synthesised it, and a row is NA in every column beyond its
\* own width.
C7_RaggedSound ==
    (tab.pc \in {"rows", "done"} /\ tab.opts.ragged_rows = "expand_warn") =>
        LET df == build_dataframe(tab.columns_, tab.observed_rows_)
            rows == SubSeq(DataRows(tab.input), 1, tab.observed_rows_)
            declared == Len(HeaderParts(tab.input[1]).field_names_)
        IN  /\ Len(rows) = tab.observed_rows_
            /\ \A i \in 1..Len(df) :
                  /\ Len(df[i].vals) = tab.observed_rows_
                  /\ \A r \in 1..Len(rows) :
                        rows[r].width < i => IsNA(df[i], r)
                  /\ i > declared =>
                        \E r \in 1..Len(rows) :
                           /\ rows[r].width >= i
                           /\ \A q \in 1..(r - 1) : IsNA(df[i], q)

\* a finished table of three rows whose second row synthesised V4 and whose
\* first and third rows are shorter than the schema
C7_Witness ==
    /\ tab.pc = "done"
    /\ tab.opts.ragged_rows = "expand_warn"
    /\ tab.observed_rows_ = 3
    /\ Len(tab.out) = 4
    /\ DataRows(tab.input)[1].width = 1
    /\ DataRows(tab.input)[2].width = 4
    /\ DataRows(tab.input)[3].width = 2
    /\ IsNA(tab.out[4], 1) /\ ~IsNA(tab.out[4], 2) /\ IsNA(tab.out[4], 3)

Ceil(a, b) == (a + b - 1) \div b

RECURSIVE Concat(_)
Concat(ss) == IF Len(ss) = 0 THEN <<>> ELSE Head(ss) \o Concat(Tail(ss))

DeliveredLines == Concat([i \in 1..Len(strm.batches) |-> strm.batches[i].lines])

\* C10: every callback invocation gets batch_size rows, the last one of a
\* finished run between 1 and batch_size; no batch is empty, no row is
\* delivered twice, and a finished run made ceil(row_count / batch_size)
\* invocations that deliver every row once, in order.
C10_BatchesComplete ==
    strm.pc # "idle" =>
        LET b == strm.batches IN
        /\ \A i \in 1..Len(b) :
              /\ b[i].n >= 1 /\ b[i].n <= strm.batch_size
              /\ Len(b[i].lines) = b[i].n
              /\ \A c \in 1..Len(b[i].df) : Len(b[i].df[c].vals) = b[i].n
              /\ (i < Len(b) \/ strm.pc # "done") => b[i].n = strm.batch_size
        /\ \A i, j \in 1..Len(DeliveredLines) :
              i < j => DeliveredLines[i] < DeliveredLines[j]
        /\ strm.pc = "done" =>
              LET rows == DataRows(strm.input) IN
              /\ Len(b) = Ceil(Len(rows), strm.batch_size)
              /\ DeliveredLines = [i \in 1..Len(rows) |-> rows[i].line_no]

\* a finished run with batch_size 2 that delivered a full batch and then a
\* last batch of one row
C10_Witness ==
    /\ strm.pc = "done"
    /\ strm.batch_size = 2
    /\ Len(strm.batches) = 2
    /\ strm.batches[1].n = 2
    /\ strm.batches[2].n = 1

\* C8: once the callback has raised an error on a batch, the run is in
\* error and that batch is the last one handed to the callback.
C8_FailureAborts ==
    strm.pc # "idle" =>
        \A i \in 1..Len(strm.batches) :
            strm.batches[i].failed =>
                /\ strm.pc = "error"
                /\ i = Len(strm.batches)

\* the type a batch gives to the column called name, UNKNOWN if it has none
TypeIn(df, name) ==
    IF \E c \in 1..Len(df) : df[c].name = name
    THEN df[CHOOSE c \in 1..Len(df) : df[c].name = name].type
    ELSE "UNKNOWN"

\* C9: in every emitted batch, a column named in col_types has the forced
\* type or a higher one.
C9_ForcedTypesSurvive ==
    strm.pc # "idle" =>
        \A i \in 1..Len(strm.batches) :
            \A k \in 1..Len(strm.opts.col_types) :
                Rank(TypeIn(strm.batches[i].df, strm.opts.col_types[k].name))
                    >= Rank(strm.opts.col_types[k].type)

\* a value of type from as the lattice conversion to type to renders it
Promoted(from, v, to) ==
    IF v = NAOf(from) THEN NAOf(to)
    ELSE IF from = to THEN v
    ELSE IF to = "INTEGER" THEN v
    ELSE IF to = "DOUBLE" THEN IntToDouble(v)
    ELSE IF from = "LOGICAL" THEN (IF v # 0 THEN TRUE_TEXT ELSE FALSE_TEXT)
    ELSE IF from = "INTEGER" THEN IntToString(v)
    ELSE DoubleToString(v)

\* two cells hold the same value: equal once the one of the lower type is
\* converted to the type of the other; a string also matches the value
\* its text denotes
SameCell(t1, v1, t2, v2) ==
    IF t1 = t2 THEN v1 = v2
    ELSE IF t2 = "STRING"
    THEN \/ Promoted(t1, v1, t2) = v2
         \/ v2 # NA_STRING /\ v1 # NAOf(t1) /\ v1 \in Converted(v2, t1)
    ELSE IF t1 = "STRING"
    THEN \/ Promoted(t2, v2, t1) = v1
         \/ v1 # NA_STRING /\ v2 # NAOf(t2) /\ v2 \in Converted(v1, t2)
    ELSE IF Rank(t1) <= Rank(t2) THEN Promoted(t1, v1, t2) = v2
    ELSE Promoted(t2, v2, t1) = v1

\* row r of a data frame: one [type, v] cell per column
RowOf(df, r) == [c \in 1..Len(df) |-> [type |-> df[c].type, v |-> df[c].vals[r]]]

BatchRows(b) == [r \in 1..b.n |-> RowOf(b.df, r)]

StreamedRows == Concat([i \in 1..Len(strm.batches) |-> BatchRows(strm.batches[i])])

\* C1: when read_table and stream_rows have both finished on the same input
\* and options, the rows of the batches in delivery order are the rows of
\* the table: as many rows, as many cells in each row, the same value in
\* each cell.
C1_StreamingEquivalence ==
    (tab.pc = "done" /\ strm.pc = "done") =>
        LET n == tab.observed_rows_
            sr == StreamedRows
        IN  /\ Len(sr) = n
            /\ \A r \in 1..n :
                  LET tr == RowOf(tab.out, r) IN
                  /\ Len(sr[r]) = Len(tr)
                  /\ \A c \in 1..Len(tr) :
                        SameCell(tr[c].type, tr[c].v, sr[r][c].type, sr[r][c].v)

(***************************************************************************)
(* WriteBuffer and BufferedReader (toon_io.cpp).  A text is a sequence of  *)
(* characters in which "\n" ends a line.                                   *)
(***************************************************************************)
HexDigits == <<"0", "1", "2", "3", "4", "5", "6", "7", "8", "9",
               "a", "b", "c", "d", "e", "f">>

\* the characters of the model in byte order (the control character is the
\* form feed, byte 12), and the byte of each
Bytes == <<"\f", " ", "\"", "#", ",", "-", ".", "0", "1", "2", "3", "4", "5",
           "6", "7", "8", "9", ":", "[", "\\", "]", "a", "b", "c", "d", "e",
           "f", "k", "l", "n", "r", "s", "t", "u", "x", "{", "}">>

ByteValues == <<12, 32, 34, 35, 44, 45, 46, 48, 49, 50, 51, 52, 53,
                54, 55, 56, 57, 58, 91, 92, 93, 97, 98, 99, 100, 101,
                102, 107, 108, 110, 114, 115, 116, 117, 120, 123, 125>>

ByteOf(c) ==
    IF \E i \in 1..Len(Bytes) : Bytes[i] = c
    THEN ByteValues[CHOOSE i \in 1..Len(Bytes) : Bytes[i] = c]
    ELSE 63

\* the character of a byte; '?' stands for the bytes outside the model
CharOf(b) ==
    IF \E i \in 1..Len(Bytes) : ByteValues[i] = b
    THEN Bytes[CHOOSE i \in 1..Len(Bytes) : ByteValues[i] = b]
    ELSE "?"

\* snprintf("\\u%04x", c) for a byte
UnicodeEscape(b) ==
    <<"\\", "u", "0", "0", HexDigits[(b \div 16) + 1], HexDigits[(b % 16) + 1]>>

\* one round of the loop of append_escaped_string
EscapedChar(c) ==
    IF c = "\"" THEN <<"\\", "\"">>
    ELSE IF c = "\\" THEN <<"\\", "\\">>
    ELSE IF c = "\n" THEN <<"\\", "n">>
    ELSE IF c = "\r" THEN <<"\\", "r">>
    ELSE IF c = "\t" THEN <<"\\", "t">>
    ELSE IF ByteOf(c) < 32 THEN UnicodeEscape(ByteOf(c))
    ELSE <<c>>

RECURSIVE EscapedChars(_)
EscapedChars(s) ==
    IF Len(s) = 0 THEN <<>> ELSE EscapedChar(s[1]) \o EscapedChars(Tail(s))

append_escaped_string(s) == <<"\"">> \o EscapedChars(s) \o <<"\"">>

\* a handle_crlf that leaves the line as it is
handle_crlf_keep(line) == line

handle_crlf(line) ==
    IF Len(line) > 0 /\ line[Len(line)] = "\r"
    THEN SubSeq(line, 1, Len(line) - 1)
    ELSE line

\* the lines BufferedReader::next_line returns one after the other; newline
\* is the index of the first "\n" of data (0: none)
RECURSIVE ReadLinesAt(_, _)
ReadLinesAt(data, newline) ==
    IF Len(data) = 0 THEN <<>>
    ELSE IF newline = 0 THEN <<handle_crlf(data)>>
    ELSE <<handle_crlf(SubSeq(data, 1, newline - 1))>>
         \o ReadLinesAt(SubSeq(data, newline + 1, Len(data)),
                        IndexFrom(SubSeq(data, newline + 1, Len(data)),
                                  "\n", 1))

ReadLines(data) == ReadLinesAt(data, IndexFrom(data, "\n", 1))

(***************************************************************************)
(* R values as the encoder sees them.  A vector has a type, its elements   *)
(* v and, for a named list, its names.  A data frame is the sequence of    *)
(* its columns [name, type, vals] as build_dataframe makes them, with the  *)
(* column types LOGICAL, INTEGER, DOUBLE, STRING for LGLSXP, INTSXP,       *)
(* REALSXP, STRSXP.                                                        *)
(***************************************************************************)
R_NilValue == [type |-> "NILSXP", named |-> FALSE, names |-> <<>>, v |-> <<>>]

Rf_allocVector(type, v) ==
    [type |-> type, named |-> FALSE, names |-> <<>>, v |-> v]

R_NaN == [neg |-> FALSE, ip |-> <<"N", "a", "N">>, fp |-> <<>>]
R_PosInf == [neg |-> FALSE, ip |-> <<"I", "n", "f">>, fp |-> <<>>]
R_NegInf == [neg |-> TRUE, ip |-> <<"I", "n", "f">>, fp |-> <<>>]

\* std::isnan: R's NA_real_ is a NaN
isnan(val) == val \in {NA_REAL, R_NaN}

isinf(val) == val \in {R_PosInf, R_NegInf}

(***************************************************************************)
(* The encoder (toon_encoder.cpp).  The operators return the text appended *)
(* to buf_; the exception of check_special_double is the predicates        *)
(* EncodeThrows and TableThrows.                                           *)
(***************************************************************************)
EncodeOptions(strict, canonical) ==
    [pretty |-> TRUE, indent |-> 2, strict |-> strict, canonical |-> canonical]

write_indent(depth, opts) ==
    IF opts.pretty /\ depth > 0
    THEN [i \in 1..(depth * opts.indent) |-> " "]
    ELSE <<>>

write_newline(opts) == IF opts.pretty THEN <<"\n">> ELSE <<>>

\* the check with its test for NaN left out
check_infinite_only(val, opts) == opts.strict /\ isinf(val)

\* check_special_double throws
check_special_double(val, opts) == opts.strict /\ (isnan(val) \/ isinf(val))

\* "[" n "]:"
ArrayHeader(n) == <<"[">> \o NatDigits(n) \o <<"]", ":">>

LogicalText(val) ==
    IF val = NA_LOGICAL THEN NULL_TEXT
    ELSE IF val # 0 THEN TRUE_TEXT ELSE FALSE_TEXT

IntegerText(val) == IF val = NA_INTEGER THEN NULL_TEXT ELSE IntToString(val)

StringText(elem) ==
    IF elem = NA_STRING THEN NULL_TEXT ELSE append_escaped_string(elem)

\* the lambda format_double of encode_double, when it does not throw
format_double(val) ==
    IF isnan(val) \/ isinf(val) THEN NULL_TEXT
    ELSE IF Contains(Format17(val), ".") \/ Contains(Format17(val), "e")
    THEN Format17(val)
    ELSE Format17(val) \o <<".", "0">>

\* the shape shared by encode_logical, encode_integer, encode_double and
\* encode_string: one element bare, otherwise a header and one "- " line
\* per element at one indentation step
EncodeElements(texts, opts) ==
    IF Len(texts) = 1 THEN texts[1]
    ELSE ArrayHeader(Len(texts)) \o write_newline(opts)
         \o Concat([i \in 1..Len(texts) |->
                      write_indent(1, opts) \o <<"-", " ">> \o texts[i]
                          \o write_newline(opts)])

encode_logical(x, opts) ==
    EncodeElements([i \in 1..Len(x.v) |-> LogicalText(x.v[i])], opts)

encode_integer(x, opts) ==
    EncodeElements([i \in 1..Len(x.v) |-> IntegerText(x.v[i])], opts)

encode_double(x, opts) ==
    EncodeElements([i \in 1..Len(x.v) |-> format_double(x.v[i])], opts)

encode_string(x, opts) ==
    EncodeElements([i \in 1..Len(x.v) |-> StringText(x.v[i])], opts)

\* a.first < b.first on std::string: byte-lexicographic
RECURSIVE StringLess(_, _)
StringLess(a, b) ==
    IF Len(b) = 0 THEN FALSE
    ELSE IF Len(a) = 0 THEN TRUE
    ELSE IF ByteOf(a[1]) < ByteOf(b[1]) THEN TRUE
    ELSE IF ByteOf(a[1]) > ByteOf(b[1]) THEN FALSE
    ELSE StringLess(Tail(a), Tail(b))

\* it put in its place in the sorted sequence items
RECURSIVE InsertItem(_, _)
InsertItem(items, it) ==
    IF Len(items) = 0 THEN <<it>>
    ELSE IF StringLess(it.first, items[1].first) THEN <<it>> \o items
    ELSE <<items[1]>> \o InsertItem(Tail(items), it)

\* the (name, index) pairs left as they are
InputOrder(items) == items

\* std::sort of the (name, index) pairs by name (the names of the model's
\* objects are distinct, so the order is determined)
RECURSIVE SortItems(_)
SortItems(items) ==
    IF Len(items) = 0 THEN <<>>
    ELSE InsertItem(SortItems(Tail(items)), items[1])

needs_quotes(name) ==
    \/ Len(name) = 0
    \/ Contains(name, ":") \/ Contains(name, " ") \/ Contains(name, "\"")

is_complex(val) ==
    \/ val.type = "VECSXP" /\ Len(val.v) > 0
    \/ Len(val.v) > 1 /\ val.type # "STRSXP"

RECURSIVE encode_value(_, _, _), encode_vector(_, _, _), encode_list(_, _, _)

encode_vector(x, depth, opts) ==
    ArrayHeader(Len(x.v)) \o write_newline(opts)
    \o Concat([i \in 1..Len(x.v) |->
                 write_indent(depth + 1, opts) \o <<"-", " ">>
                     \o encode_value(x.v[i], depth + 1, opts)
                     \o write_newline(opts)])

\* one round of the loop of encode_list over the (name, index) pairs
EncodeItem(x, it, depth, opts) ==
    (IF depth > 0 THEN write_indent(depth, opts) ELSE <<>>)
    \o (IF needs_quotes(it.first) THEN append_escaped_string(it.first)
        ELSE it.first)
    \o <<":", " ">>
    \o (IF is_complex(x.v[it.second])
        THEN write_newline(opts) \o encode_value(x.v[it.second], depth + 1, opts)
        ELSE encode_value(x.v[it.second], depth + 1, opts)
                 \o write_newline(opts))

\* encode_list once the (name, index) pairs are in emission order
EncodeItems(x, items, depth, opts) ==
    Concat([j \in 1..Len(items) |-> EncodeItem(x, items[j], depth, opts)])

encode_list(x, depth, opts) ==
    IF ~x.named \/ Len(x.names) # Len(x.v) THEN encode_vector(x, depth, opts)
    ELSE EncodeItems(x,
            IF opts.canonical
            THEN SortItems([i \in 1..Len(x.v) |->
                              [first |-> x.names[i], second |-> i]])
            ELSE [i \in 1..Len(x.v) |-> [first |-> x.names[i], second |-> i]],
            depth, opts)

\* encode_value for the values without a class attribute
encode_value(x, depth, opts) ==
    IF x.type = "NILSXP" THEN NULL_TEXT
    ELSE IF x.type = "LGLSXP" THEN encode_logical(x, opts)
    ELSE IF x.type = "INTSXP" THEN encode_integer(x, opts)
    ELSE IF x.type = "REALSXP" THEN encode_double(x, opts)
    ELSE IF x.type = "STRSXP" THEN encode_string(x, opts)
    ELSE IF x.type = "VECSXP" THEN encode_list(x, depth, opts)
    ELSE NULL_TEXT

\* Encoder::encode throws: some double of x fails check_special_double
RECURSIVE EncodeThrows(_, _)
EncodeThrows(x, opts) ==
    IF x.type = "REALSXP"
    THEN \E i \in 1..Len(x.v) : check_special_double(x.v[i], opts)
    ELSE IF x.type = "VECSXP"
    THEN \E i \in 1..Len(x.v) : EncodeThrows(x.v[i], opts)
    ELSE FALSE

encode(x, opts) == encode_value(x, 0, opts)

\* one cell of a row of encode_dataframe_tabular, by the type of its column
CellText(type, val) ==
    IF type = "LOGICAL" THEN LogicalText(val)
    ELSE IF type = "INTEGER" THEN IntegerText(val)
    ELSE IF type = "DOUBLE"
    THEN (IF isnan(val) \/ isinf(val) THEN NULL_TEXT ELSE Format17(val))
    ELSE IF type = "STRING" THEN StringText(val)
    ELSE NULL_TEXT

\* the elements of texts with sep between them
RECURSIVE Joined(_, _)
Joined(texts, sep) ==
    IF Len(texts) = 0 THEN <<>>
    ELSE IF Len(texts) = 1 THEN texts[1]
    ELSE texts[1] \o sep \o Joined(Tail(texts), sep)

encode_dataframe_tabular(df, depth, opts) ==
    <<"[">>
    \o NatDigits(IF Len(df) > 0 THEN Len(df[1].vals) ELSE 0)
    \o <<"]", "{">>
    \o Joined([j \in 1..Len(df) |->
                 IF df[j].name = NA_STRING THEN <<>> ELSE df[j].name], <<",">>)
    \o <<"}", ":">> \o write_newline(opts)
    \o Concat([i \in 1..(IF Len(df) > 0 THEN Len(df[1].vals) ELSE 0) |->
                 write_indent(depth + 1, opts)
                 \o Joined([j \in 1..Len(df) |->
                              CellText(df[j].type, df[j].vals[i])],
                           <<",", " ">>)
                 \o write_newline(opts)])

\* Encoder::encode_dataframe throws
TableThrows(df, opts) ==
    \E j \in 1..Len(df) :
        /\ df[j].type = "DOUBLE"
        /\ \E i \in 1..Len(df[1].vals) : check_special_double(df[j].vals[i], opts)

encode_dataframe(df, opts) == encode_dataframe_tabular(df, 0, opts)

(***************************************************************************)
(* The DOM (toon_parser.hpp): a Node has a kind and the storage of every   *)
(* kind; nullptr is the empty NodePtr.                                     *)
(***************************************************************************)
Node(kind) ==
    [kind |-> kind, bool_val |-> FALSE, int_val |-> 0,
     double_val |-> [neg |-> FALSE, ip |-> <<"0">>, fp |-> <<>>],
     string_val |-> <<>>, array_items |-> <<>>, object_items |-> <<>>]

nullptr == Node("nullptr")

make_null == Node("N_NULL")

make_bool(v) == [Node("N_BOOL") EXCEPT !.bool_val = v]

make_int(v) == [Node("N_INT") EXCEPT !.int_val = v]

make_double(v) == [Node("N_DOUBLE") EXCEPT !.double_val = v]

make_string(v) == [Node("N_STRING") EXCEPT !.string_val = v]

\* make_array followed by the push_back of the items
make_array(items) == [Node("N_ARRAY") EXCEPT !.array_items = items]

\* make_object followed by the push_back of the (key, value) pairs
make_object(items) == [Node("N_OBJECT") EXCEPT !.object_items = items]

ParseOptions(strict, simplify) ==
    [strict |-> strict, simplify |-> simplify, allow_comments |-> TRUE,
     allow_duplicate_keys |-> TRUE, warn |-> TRUE]

TabularHeader(declared_count, fields, is_tabular) ==
    [declared_count |-> declared_count, fields |-> fields,
     delimiter |-> ",", is_tabular |-> is_tabular]

LineInfo(type, indent, content, key, value, tabular, line_no) ==
    [type |-> type, indent |-> indent, content |-> content, key |-> key,
     value |-> value, tabular |-> tabular, line_no |-> line_no]

(***************************************************************************)
(* Parser: the line classifier and the primitive scanners                  *)
(* (toon_parser.cpp).  Parser::trim is the same code as                    *)
(* TabularParser::trim.                                                    *)
(***************************************************************************)
RECURSIVE count_indent(_)
count_indent(line) ==
    IF Len(line) > 0 /\ line[1] \in {" ", "\t"}
    THEN 1 + count_indent(Tail(line))
    ELSE 0

\* count_indent throws: a tab among the leading blanks in strict mode
IndentThrows(line, opts) ==
    opts.strict /\ \E i \in 1..count_indent(line) : line[i] = "\t"

trim_trailing(sv) == TrimBack(sv)

is_comment_line(content) == IsCommentLine(trim(content))

\* the loop of strip_trailing_comment from 1-based position i
RECURSIVE StripScan(_, _, _, _)
StripScan(content, i, in_string, escape) ==
    IF i > Len(content) THEN content
    ELSE IF escape THEN StripScan(content, i + 1, in_string, FALSE)
    ELSE IF content[i] = "\\" /\ in_string
    THEN StripScan(content, i + 1, in_string, TRUE)
    ELSE IF content[i] = "\""
    THEN StripScan(content, i + 1, ~in_string, FALSE)
    ELSE IF /\ ~in_string
            /\ \/ content[i] = "#"
               \/ content[i] = "/" /\ i + 1 <= Len(content)
                  /\ content[i + 1] = "/"
            /\ i > 1 /\ IsSpace(content[i - 1])
    THEN trim_trailing(SubSeq(content, 1, i - 1))
    ELSE StripScan(content, i + 1, in_string, FALSE)

strip_trailing_comment(content, opts) ==
    IF opts.allow_comments THEN StripScan(content, 1, FALSE, FALSE)
    ELSE content

\* the loop of classify_line looking for the first ':' outside a string:
\* its 1-based position, 0 when there is none
RECURSIVE ColonScan(_, _, _, _)
ColonScan(content, i, in_string, escape) ==
    IF i > Len(content) THEN 0
    ELSE IF escape THEN ColonScan(content, i + 1, in_string, FALSE)
    ELSE IF content[i] = "\\" /\ in_string
    THEN ColonScan(content, i + 1, in_string, TRUE)
    ELSE IF content[i] = "\""
    THEN ColonScan(content, i + 1, ~in_string, FALSE)
    ELSE IF ~in_string /\ content[i] = ":" THEN i
    ELSE ColonScan(content, i + 1, in_string, FALSE)

\* parse_array_header behind "[" digits: pos is the 1-based position after
\* the digits and n the count they spell
ArrayHeaderCount(text, pos, n) ==
    IF pos > Len(text) \/ text[pos] # "]" THEN TabularHeader(n, <<>>, FALSE)
    ELSE IF pos + 1 <= Len(text) /\ text[pos + 1] = "{"
    THEN TabularHeader(n,
            IF IndexFrom(text, "}", pos + 2) # 0
            THEN HeaderFields(SubSeq(text, pos + 2,
                                     IndexFrom(text, "}", pos + 2) - 1))
            ELSE <<>>,
            TRUE)
    ELSE TabularHeader(n, <<>>, FALSE)

ArrayHeaderFrom(text, pos) ==
    ArrayHeaderCount(text, pos,
        IF pos > 2
        THEN DigitsValue(StripZeros(SubSeq(text, 2, pos - 1)), FALSE, 0)
        ELSE 0)

parse_array_header(text) ==
    IF Len(text) = 0 \/ text[1] # "[" THEN TabularHeader(0, <<>>, FALSE)
    ELSE ArrayHeaderFrom(text, SkipDigits(text, 2))

\* the key of a key line: trimmed, and without its quotes if it has them
KeyOf(key) ==
    IF Len(key) >= 2 /\ key[1] = "\"" /\ key[Len(key)] = "\""
    THEN SubSeq(key, 2, Len(key) - 1)
    ELSE key

\* classify_line from the key-value test on
ClassifyKey(indent, raw, content, colon_pos, line_no) ==
    IF colon_pos # 0
    THEN LineInfo(IF Len(trim(SubSeq(content, colon_pos + 1, Len(content)))) = 0
                  THEN "KEY_NESTED" ELSE "KEY_VALUE",
                  indent, raw,
                  KeyOf(trim(SubSeq(content, 1, colon_pos - 1))),
                  trim(SubSeq(content, colon_pos + 1, Len(content))),
                  TabularHeader(0, <<>>, FALSE), line_no)
    ELSE LineInfo("RAW_VALUE", indent, raw, <<>>, trim(content),
                  TabularHeader(0, <<>>, FALSE), line_no)

\* classify_line once the trailing comment is cut from content
ClassifyStripped(indent, raw, content, line_no) ==
    IF Len(content) >= 2 /\ content[1] = "-" /\ content[2] = " "
    THEN LineInfo("LIST_ITEM", indent, raw, <<>>,
                  trim(SubSeq(content, 3, Len(content))),
                  TabularHeader(0, <<>>, FALSE), line_no)
    ELSE IF Len(content) > 0 /\ content[1] = "["
    THEN LineInfo(IF parse_array_header(content).is_tabular
                  THEN "TABULAR_HEADER" ELSE "ARRAY_HEADER",
                  indent, raw, <<>>, <<>>, parse_array_header(content), line_no)
    ELSE ClassifyKey(indent, raw, content, ColonScan(content, 1, FALSE, FALSE),
                     line_no)

\* classify_line behind the indentation
ClassifyContent(indent, content, line_no, opts) ==
    IF Len(content) = 0
    THEN LineInfo("EMPTY", indent, content, <<>>, <<>>,
                  TabularHeader(0, <<>>, FALSE), line_no)
    ELSE IF opts.allow_comments /\ is_comment_line(content)
    THEN LineInfo("COMMENT", indent, content, <<>>, <<>>,
                  TabularHeader(0, <<>>, FALSE), line_no)
    ELSE ClassifyStripped(indent, content,
                          strip_trailing_comment(content, opts), line_no)

\* classify_line; the type THROW stands for the exception of count_indent
classify_line(line, line_no, opts) ==
    IF IndentThrows(line, opts)
    THEN LineInfo("THROW", 0, <<>>, <<>>, <<>>,
                  TabularHeader(0, <<>>, FALSE), line_no)
    ELSE ClassifyContent(count_indent(line),
                         SubSeq(line, count_indent(line) + 1, Len(line)),
                         line_no, opts)

\* parse_integer has a value: no '.', 'e' or 'E', from_chars consumes the
\* whole text (result r), and INT32_MIN < value <= INT32_MAX
IntegerScans(text, r) ==
    /\ Len(text) > 0
    /\ ~Contains(text, ".") /\ ~Contains(text, "e") /\ ~Contains(text, "E")
    /\ r.ok /\ FitsInt32(r)
    /\ ~(r.neg /\ r.digs = INT32_MIN_DIGITS)

parse_integer(text) == IntegerScans(text, IntFromChars(text))

\* parse_number has a value (the model forms no NaN or infinity spellings)
parse_number(text) == Len(text) > 0 /\ DoubleFromChars(text).ok

IsHexDigit(c) == \E i \in 1..16 : HexDigits[i] = c

HexVal(c) == (CHOOSE i \in 1..16 : HexDigits[i] = c) - 1

\* std::from_chars(hex, hex + 4, cp, 16): the value of the longest prefix of
\* hexadecimal digits
RECURSIVE HexPrefixValue(_, _)
HexPrefixValue(hex, acc) ==
    IF Len(hex) > 0 /\ IsHexDigit(hex[1])
    THEN HexPrefixValue(Tail(hex), acc * 16 + HexVal(hex[1]))
    ELSE acc

\* the UTF-8 bytes of a code point of the basic plane
Utf8(cp) ==
    IF cp < 128 THEN <<CharOf(cp)>>
    ELSE IF cp < 2048 THEN <<CharOf(192 + (cp \div 64)), CharOf(128 + (cp % 64))>>
    ELSE <<CharOf(224 + (cp \div 4096)), CharOf(128 + ((cp \div 64) % 64)),
           CharOf(128 + (cp % 64))>>

\* the loop of parse_quoted_string from 1-based position j (the text
\* between the quotes is 2 .. Len(text) - 1)
RECURSIVE QuotedScan(_, _, _, _)
QuotedScan(text, j, result, opts) ==
    IF j > Len(text) - 1 THEN [ok |-> TRUE, s |-> result]
    ELSE IF text[j] = "\\" /\ j < Len(text) - 1
    THEN IF text[j + 1] = "\""
         THEN QuotedScan(text, j + 2, Append(result, "\""), opts)
         ELSE IF text[j + 1] = "\\"
         THEN QuotedScan(text, j + 2, Append(result, "\\"), opts)
         ELSE IF text[j + 1] = "n"
         THEN QuotedScan(text, j + 2, Append(result, "\n"), opts)
         ELSE IF text[j + 1] = "r"
         THEN QuotedScan(text, j + 2, Append(result, "\r"), opts)
         ELSE IF text[j + 1] = "t"
         THEN QuotedScan(text, j + 2, Append(result, "\t"), opts)
         ELSE IF text[j + 1] = "u" /\ j + 5 < Len(text)
                 /\ IsHexDigit(text[j + 2])
         THEN QuotedScan(text, j + 6,
                         result \o Utf8(HexPrefixValue(SubSeq(text, j + 2, j + 5), 0)),
                         opts)
         ELSE IF opts.strict THEN [ok |-> FALSE, s |-> <<>>]
         ELSE QuotedScan(text, j + 1, Append(result, text[j]), opts)
    ELSE QuotedScan(text, j + 1, Append(result, text[j]), opts)

parse_quoted_string(text, opts) ==
    IF Len(text) < 2 \/ text[1] # "\"" \/ text[Len(text)] # "\""
    THEN [ok |-> FALSE, s |-> <<>>]
    ELSE QuotedScan(text, 2, <<>>, opts)

\* the quoted branch of parse_primitive
QuotedPrimitive(text, str_val, opts) ==
    IF str_val.ok THEN make_string(str_val.s)
    ELSE IF ~opts.strict THEN make_string(text)
    ELSE nullptr

\* parse_primitive after trimming
PrimitiveOf(text, opts) ==
    IF Len(text) = 0 THEN nullptr
    ELSE IF text = NULL_TEXT THEN make_null
    ELSE IF text = TRUE_TEXT THEN make_bool(TRUE)
    ELSE IF text = FALSE_TEXT THEN make_bool(FALSE)
    ELSE IF text[1] = "\""
    THEN QuotedPrimitive(text, parse_quoted_string(text, opts), opts)
    ELSE IF parse_integer(text) THEN make_int(IntOf(IntFromChars(text)))
    ELSE IF parse_number(text) THEN make_double(DoubleFromChars(text).v)
    ELSE IF ~opts.strict THEN make_string(text)
    ELSE nullptr

parse_primitive(text, opts) == PrimitiveOf(trim(text), opts)

\* the loop of parse_tabular_row from 1-based position i, and its last field
RECURSIVE RowScan(_, _, _, _, _, _, _)
RowScan(line, delimiter, i, start, in_string, escape, fields) ==
    IF i > Len(line)
    THEN Append(fields, trim(SubSeq(line, start, Len(line))))
    ELSE IF escape
    THEN RowScan(line, delimiter, i + 1, start, in_string, FALSE, fields)
    ELSE IF line[i] = "\\" /\ in_string
    THEN RowScan(line, delimiter, i + 1, start, in_string, TRUE, fields)
    ELSE IF line[i] = "\""
    THEN RowScan(line, delimiter, i + 1, start, ~in_string, FALSE, fields)
    ELSE IF ~in_string /\ line[i] = delimiter
    THEN RowScan(line, delimiter, i + 1, i + 1, in_string, FALSE,
                 Append(fields, trim(SubSeq(line, start, i - 1))))
    ELSE RowScan(line, delimiter, i + 1, start, in_string, FALSE, fields)

parse_tabular_row(line, delimiter) ==
    RowScan(line, delimiter, 1, 1, FALSE, FALSE, <<>>)

(***************************************************************************)
(* Parser: the recursive descent (toon_parser.cpp).  The state p holds the *)
(* lines the reader has not delivered yet and the parser's fields; err is  *)
(* the message of a thrown ParseError, which ends every loop.  Each        *)
(* operator returns the state with the node it built.  Two history fields  *)
(* record what happens to pushed-back lines: fetched_over holds the line   *)
(* numbers that sat in the peek slot while the reader was asked for a new  *)
(* line, overwritten those that sat there when another line was pushed.    *)
(***************************************************************************)
Parser(lines, opts) ==
    [lines |-> lines, line_no |-> 0, opts |-> opts, has_peeked_ |-> FALSE,
     peeked_line_ |-> LineInfo("EMPTY", 0, <<>>, <<>>, <<>>,
                               TabularHeader(0, <<>>, FALSE), 0),
     warnings_ |-> <<>>, err |-> <<>>, err_at |-> ParseError(0, 0, <<>>),
     fetched_over |-> {}, overwritten |-> {}]

Result(p, node) == [p |-> p, node |-> node]

\* Parser::error
\* Parser::error(msg, line): the column is left at its default 0 and the
\* snippet is ""
Fail(p, msg, line) ==
    Result([p EXCEPT !.err = msg, !.err_at = ParseError(line, 0, <<>>)],
           nullptr)

TabError == <<"Tab characters not allowed in indentation (strict mode)">>

\* reader.next_line followed by classify_line
NextInfo(p) == classify_line(Head(p.lines), p.line_no + 1, p.opts)

Advance(p) ==
    [p EXCEPT !.lines = Tail(@), !.line_no = @ + 1,
              !.fetched_over = IF p.has_peeked_
                               THEN @ \cup {p.peeked_line_.line_no} ELSE @]

\* has_peeked_ = true; peeked_line_ = info
Peek(p, info) ==
    [p EXCEPT !.has_peeked_ = TRUE, !.peeked_line_ = info,
              !.overwritten = IF p.has_peeked_
                              THEN @ \cup {p.peeked_line_.line_no} ELSE @]

IsBlank(info) == info.type \in {"EMPTY", "COMMENT"}

IsKey(info) == info.type \in {"KEY_VALUE", "KEY_NESTED"}

IsHeader(info) == info.type \in {"ARRAY_HEADER", "TABULAR_HEADER"}

\* item_val, or make_string(value) when parse_primitive found nothing
OrString(item_val, value) ==
    IF item_val # nullptr THEN item_val ELSE make_string(value)

\* nested, or make_null() when parse_value found nothing
OrNull(nested) == IF nested # nullptr THEN nested ELSE make_null

\* the RAW_VALUE case of parse_value
RawValue(p, prim, line) ==
    IF prim # nullptr THEN Result(p, prim)
    ELSE Fail(p, <<"Invalid value">>, line)

\* the n_mismatch warning at the end of parse_array
ArrayEnd(p, items, header) ==
    Result([p EXCEPT !.warnings_ =
                IF /\ p.opts.warn /\ header.declared_count > 0
                   /\ Len(items) # header.declared_count
                THEN Append(@, "n_mismatch") ELSE @],
           make_array(items))

\* the row object of a tabular array
RowObject(fields, header, opts) ==
    make_object([i \in 1..(IF Len(fields) < Len(header.fields)
                           THEN Len(fields) ELSE Len(header.fields)) |->
                    [first |-> header.fields[i],
                     second |-> OrString(parse_primitive(fields[i], opts),
                                         fields[i])]])

\* the state of parse_object: the parser, obj->object_items, and the keys of
\* duplicate_counts (seen_keys is the set of keys of the items)
ObjectState(p, items, dups) == [p |-> p, items |-> items, dups |-> dups]

HasKey(items, key) == \E i \in 1..Len(items) : items[i].first = key

\* the erase of the first entry of that key
RECURSIVE EraseKey(_, _)
EraseKey(items, key) ==
    IF Len(items) = 0 THEN items
    ELSE IF Head(items).first = key THEN Tail(items)
    ELSE <<Head(items)>> \o EraseKey(Tail(items), key)

\* obj->object_items.push_back({key_str, value}) behind a nested parse r
PushValue(o, kv_info, r) ==
    ObjectState(r.p, Append(o.items, [first |-> kv_info.key,
                                      second |-> OrNull(r.node)]), o.dups)

\* the end of parse_object: the duplicate_key warning
ObjectEnd(o) ==
    Result([o.p EXCEPT !.warnings_ =
                IF o.p.opts.warn /\ o.dups # {}
                THEN Append(@, "duplicate_key") ELSE @],
           make_object(o.items))

RECURSIVE parse_value(_, _)
RECURSIVE parse_object(_, _)
RECURSIVE parse_array(_, _, _)
RECURSIVE ValuePeeked(_, _)
RECURSIVE PeekedItem(_, _, _)
RECURSIVE ValueLine(_, _, _)
RECURSIVE ListItems(_, _, _, _)
RECURSIVE ListLine(_, _, _, _, _)
RECURSIVE ListNested(_, _, _, _)
RECURSIVE process_key_value(_, _)
RECURSIVE KeyValue(_, _)
RECURSIVE InlineValue(_, _, _)
RECURSIVE InlineHeader(_, _, _)
RECURSIVE ObjectLoop(_, _, _)
RECURSIVE ObjectLine(_, _, _, _)
RECURSIVE TabularRows(_, _, _, _, _)
RECURSIVE TabularLine(_, _, _, _, _, _)
RECURSIVE TabularAt(_, _, _, _, _, _)
RECURSIVE ArrayItems(_, _, _, _, _)
RECURSIVE ArrayLine(_, _, _, _, _, _)
RECURSIVE ArrayAt(_, _, _, _, _, _)
RECURSIVE ArrayNested(_, _, _, _, _)

\* the loop head of parse_value
parse_value(p, parent_indent) ==
    IF p.err # <<>> THEN Result(p, nullptr)
    ELSE IF p.has_peeked_
    THEN ValuePeeked([p EXCEPT !.has_peeked_ = FALSE], parent_indent)
    ELSE IF Len(p.lines) = 0 THEN Result(p, nullptr)
    ELSE ValueLine(Advance(p), NextInfo(p), parent_indent)

\* parse_value on the peeked line
ValuePeeked(p, parent_indent) ==
    IF IsBlank(p.peeked_line_) THEN parse_value(p, parent_indent)
    ELSE IF p.peeked_line_.indent <= parent_indent
    THEN Result([p EXCEPT !.has_peeked_ = TRUE], nullptr)
    ELSE IF IsKey(p.peeked_line_) THEN parse_object(p, parent_indent)
    ELSE IF p.peeked_line_.type = "LIST_ITEM"
    THEN PeekedItem(p, p.peeked_line_, parent_indent)
    ELSE IF IsHeader(p.peeked_line_)
    THEN parse_array(p, parent_indent, p.peeked_line_.tabular)
    ELSE IF p.peeked_line_.type = "RAW_VALUE"
    THEN RawValue(p, parse_primitive(p.peeked_line_.value, p.opts),
                  p.peeked_line_.line_no)
    ELSE Result(p, nullptr)

\* the LIST_ITEM case on the peeked line: the local array is dropped and
\* parse_array answers.  info is a reference to peeked_line_, so the nested
\* parse_value of a non-primitive inline value runs with the indent already
\* raised by 2
PeekedItem(p, info, parent_indent) ==
    IF Len(info.value) > 0
    THEN IF parse_primitive(info.value, p.opts) # nullptr
         THEN parse_array(p, parent_indent, TabularHeader(0, <<>>, FALSE))
         ELSE parse_array(
                parse_value([p EXCEPT !.has_peeked_ = TRUE,
                                      !.peeked_line_.type = "RAW_VALUE",
                                      !.peeked_line_.indent = info.indent + 2],
                            info.indent + 2).p,
                parent_indent, TabularHeader(0, <<>>, FALSE))
    ELSE parse_array(parse_value(p, info.indent).p, parent_indent,
                     TabularHeader(0, <<>>, FALSE))

\* parse_value on a line read from the reader
ValueLine(p, info, parent_indent) ==
    IF info.type = "THROW" THEN Fail(p, TabError, 0)
    ELSE IF IsBlank(info) THEN parse_value(p, parent_indent)
    ELSE IF info.indent <= parent_indent THEN Result(Peek(p, info), nullptr)
    ELSE IF IsKey(info)
    THEN parse_object([p EXCEPT !.peeked_line_ = info], parent_indent)
    ELSE IF info.type = "LIST_ITEM"
    THEN ListLine(p, info, <<>>, parent_indent, info.indent)
    ELSE IF IsHeader(info)
    THEN parse_array(Peek(p, info), parent_indent, info.tabular)
    ELSE RawValue(p, parse_primitive(info.value, p.opts), info.line_no)

\* the loop of the LIST_ITEM case: it reads the reader whatever has_peeked_
ListItems(p, items, parent_indent, list_indent) ==
    IF p.err # <<>> THEN Result(p, nullptr)
    ELSE IF Len(p.lines) = 0 THEN Result(p, make_array(items))
    ELSE ListLine(Advance(p), NextInfo(p), items, parent_indent, list_indent)

\* one line of that loop; the first item comes here with no items yet
ListLine(p, info, items, parent_indent, list_indent) ==
    IF info.type = "THROW" THEN Fail(p, TabError, 0)
    ELSE IF IsBlank(info)
    THEN ListItems(p, items, parent_indent, list_indent)
    ELSE IF info.indent <= parent_indent
    THEN Result(Peek(p, info), make_array(items))
    ELSE IF info.type # "LIST_ITEM" \/ info.indent # list_indent
    THEN Result(Peek(p, info), make_array(items))
    ELSE IF Len(info.value) > 0
    THEN ListItems(p, Append(items,
                             OrString(parse_primitive(info.value, p.opts),
                                      info.value)),
                   parent_indent, list_indent)
    ELSE ListNested(parse_value(p, info.indent), items, parent_indent,
                    list_indent)

\* the loop goes on behind the nested value r of an item
ListNested(r, items, parent_indent, list_indent) ==
    ListItems(r.p, Append(items, OrNull(r.node)), parent_indent, list_indent)

\* parse_object: the first key is peeked_line_
parse_object(p, parent_indent) ==
    IF p.err # <<>> THEN Result(p, nullptr)
    ELSE ObjectLoop(process_key_value(ObjectState(p, <<>>, {}),
                                      p.peeked_line_),
                    parent_indent, p.peeked_line_.indent)

\* the lambda process_key_value: the duplicate check
process_key_value(o, kv_info) ==
    IF HasKey(o.items, kv_info.key)
    THEN IF ~o.p.opts.allow_duplicate_keys
         THEN [o EXCEPT !.p.err = <<"Duplicate key">>,
                        !.p.err_at = ParseError(kv_info.line_no, 0, <<>>)]
         ELSE KeyValue(ObjectState(o.p, EraseKey(o.items, kv_info.key),
                                   IF o.p.opts.warn
                                   THEN o.dups \cup {kv_info.key}
                                   ELSE o.dups),
                       kv_info)
    ELSE KeyValue(o, kv_info)

\* the lambda from the value on
KeyValue(o, kv_info) ==
    IF kv_info.type = "KEY_VALUE"
    THEN InlineValue(o, kv_info, parse_primitive(kv_info.value, o.p.opts))
    ELSE PushValue(o, kv_info, parse_value(o.p, kv_info.indent))

\* the value of a KEY_VALUE line
InlineValue(o, kv_info, value) ==
    IF value # nullptr THEN PushValue(o, kv_info, Result(o.p, value))
    ELSE IF Len(kv_info.value) > 0 /\ kv_info.value[1] = "["
    THEN InlineHeader(o, kv_info, parse_array_header(kv_info.value))
    ELSE PushValue(o, kv_info, Result(o.p, make_string(kv_info.value)))

\* an inline array header behind a key
InlineHeader(o, kv_info, header) ==
    IF header.declared_count > 0 \/ header.is_tabular
    THEN PushValue(o, kv_info,
            parse_array([o.p EXCEPT
                            !.has_peeked_ = TRUE,
                            !.peeked_line_.type =
                                IF header.is_tabular THEN "TABULAR_HEADER"
                                ELSE "ARRAY_HEADER",
                            !.peeked_line_.tabular = header,
                            !.peeked_line_.indent = kv_info.indent + 2],
                        kv_info.indent, header))
    ELSE PushValue(o, kv_info, Result(o.p, make_string(kv_info.value)))

\* the loop of parse_object
ObjectLoop(o, parent_indent, obj_indent) ==
    IF o.p.err # <<>> THEN Result(o.p, nullptr)
    ELSE IF o.p.has_peeked_
    THEN ObjectLine([o EXCEPT !.p.has_peeked_ = FALSE], o.p.peeked_line_,
                    parent_indent, obj_indent)
    ELSE IF Len(o.p.lines) = 0 THEN ObjectEnd(o)
    ELSE ObjectLine([o EXCEPT !.p = Advance(@)], NextInfo(o.p),
                    parent_indent, obj_indent)

ObjectLine(o, info, parent_indent, obj_indent) ==
    IF info.type = "THROW" THEN Fail(o.p, TabError, 0)
    ELSE IF IsBlank(info) THEN ObjectLoop(o, parent_indent, obj_indent)
    ELSE IF \/ info.indent <= parent_indent
            \/ info.indent # obj_indent
            \/ ~IsKey(info)
    THEN ObjectEnd([o EXCEPT !.p = Peek(@, info)])
    ELSE ObjectLoop(process_key_value(o, info), parent_indent, obj_indent)

\* parse_array: a peeked header line is consumed
parse_array(p, parent_indent, header) ==
    IF p.err # <<>> THEN Result(p, nullptr)
    ELSE IF header.is_tabular
    THEN TabularRows(IF p.has_peeked_ /\ IsHeader(p.peeked_line_)
                     THEN [p EXCEPT !.has_peeked_ = FALSE] ELSE p,
                     <<>>, -1, parent_indent, header)
    ELSE ArrayItems(IF p.has_peeked_ /\ IsHeader(p.peeked_line_)
                    THEN [p EXCEPT !.has_peeked_ = FALSE] ELSE p,
                    <<>>, -1, parent_indent, header)

\* the loop over the rows of a tabular array
TabularRows(p, rows, arr_indent, parent_indent, header) ==
    IF p.err # <<>> THEN Result(p, nullptr)
    ELSE IF Len(p.lines) = 0 THEN ArrayEnd(p, rows, header)
    ELSE TabularLine(Advance(p), NextInfo(p), rows, arr_indent,
                     parent_indent, header)

TabularLine(p, info, rows, arr_indent, parent_indent, header) ==
    IF info.type = "THROW" THEN Fail(p, TabError, 0)
    ELSE IF IsBlank(info)
    THEN TabularRows(p, rows, arr_indent, parent_indent, header)
    ELSE TabularAt(p, info, rows,
                   IF arr_indent < 0 THEN info.indent ELSE arr_indent,
                   parent_indent, header)

TabularAt(p, info, rows, arr_indent, parent_indent, header) ==
    IF info.indent <= parent_indent \/ info.indent < arr_indent
    THEN ArrayEnd(Peek(p, info), rows, header)
    ELSE TabularRows(p,
            Append(rows, RowObject(parse_tabular_row(info.content,
                                                     header.delimiter),
                                   header, p.opts)),
            arr_indent, parent_indent, header)

\* the loop over the items of a non-tabular array; its two branches, on the
\* peeked line and on a line of the reader, run the same code
ArrayItems(p, items, arr_indent, parent_indent, header) ==
    IF p.err # <<>> THEN Result(p, nullptr)
    ELSE IF p.has_peeked_
    THEN ArrayLine([p EXCEPT !.has_peeked_ = FALSE], p.peeked_line_, items,
                   arr_indent, parent_indent, header)
    ELSE IF Len(p.lines) = 0 THEN ArrayEnd(p, items, header)
    ELSE ArrayLine(Advance(p), NextInfo(p), items, arr_indent,
                   parent_indent, header)

ArrayLine(p, info, items, arr_indent, parent_indent, header) ==
    IF info.type = "THROW" THEN Fail(p, TabError, 0)
    ELSE IF IsBlank(info)
    THEN ArrayItems(p, items, arr_indent, parent_indent, header)
    ELSE ArrayAt(p, info, items,
                 IF arr_indent < 0 /\ info.type = "LIST_ITEM"
                 THEN info.indent ELSE arr_indent,
                 parent_indent, header)

ArrayAt(p, info, items, arr_indent, parent_indent, header) ==
    IF info.indent <= parent_indent
    THEN ArrayEnd(Peek(p, info), items, header)
    ELSE IF info.type = "LIST_ITEM" /\ info.indent = arr_indent
    THEN IF Len(info.value) > 0
         THEN ArrayItems(p, Append(items,
                                   OrString(parse_primitive(info.value, p.opts),
                                            info.value)),
                         arr_indent, parent_indent, header)
         ELSE ArrayNested(parse_value(p, info.indent), items, arr_indent,
                          parent_indent, header)
    ELSE ArrayEnd(Peek(p, info), items, header)

\* the loop goes on behind the nested value r of an item
ArrayNested(r, items, arr_indent, parent_indent, header) ==
    ArrayItems(r.p, Append(items, OrNull(r.node)), arr_indent, parent_indent,
               header)

\* parse_string: lines left behind the first value are not looked at
parse_string(text, opts) == parse_value(Parser(ReadLines(text), opts), -1)

(***************************************************************************)
(* node_to_sexp (toonlite.cpp): a parsed tree as an R value.               *)
(***************************************************************************)
\* the scan of the simplify branch over the items not yet visited
RECURSIVE SimplifyScan(_, _, _)
SimplifyScan(items, first_kind, all_same) ==
    IF Len(items) = 0
    THEN [all_primitive |-> TRUE, all_same |-> all_same,
          first_kind |-> first_kind]
    ELSE IF Head(items).kind \in {"N_ARRAY", "N_OBJECT"}
    THEN [all_primitive |-> FALSE, all_same |-> all_same,
          first_kind |-> first_kind]
    ELSE IF Head(items).kind # first_kind /\ Head(items).kind # "N_NULL"
    THEN IF first_kind = "N_NULL"
         THEN SimplifyScan(Tail(items), Head(items).kind, all_same)
         ELSE SimplifyScan(Tail(items), first_kind, FALSE)
    ELSE SimplifyScan(Tail(items), first_kind, all_same)

\* the atomic vector of the items of an array of one primitive kind
AtomicVector(items, first_kind) ==
    IF first_kind = "N_BOOL"
    THEN Rf_allocVector("LGLSXP",
            [i \in 1..Len(items) |->
                IF items[i].kind = "N_NULL" THEN NA_LOGICAL
                ELSE IF items[i].bool_val THEN 1 ELSE 0])
    ELSE IF first_kind = "N_INT"
    THEN Rf_allocVector("INTSXP",
            [i \in 1..Len(items) |->
                IF items[i].kind = "N_NULL" THEN NA_INTEGER
                ELSE items[i].int_val])
    ELSE IF first_kind = "N_DOUBLE"
    THEN Rf_allocVector("REALSXP",
            [i \in 1..Len(items) |->
                IF items[i].kind = "N_NULL" THEN NA_REAL
                ELSE items[i].double_val])
    ELSE Rf_allocVector("STRSXP",
            [i \in 1..Len(items) |->
                IF items[i].kind = "N_NULL" THEN NA_STRING
                ELSE items[i].string_val])

RECURSIVE node_to_sexp(_, _)

\* the N_ARRAY case, scan being the outcome of the scan of its items
ArrayToSexp(items, scan, simplify) ==
    IF /\ simplify /\ Len(items) > 0
       /\ scan.all_primitive /\ scan.all_same
       /\ scan.first_kind \in {"N_BOOL", "N_INT", "N_DOUBLE", "N_STRING"}
    THEN AtomicVector(items, scan.first_kind)
    ELSE Rf_allocVector("VECSXP",
            [i \in 1..Len(items) |-> node_to_sexp(items[i], simplify)])

node_to_sexp(node, simplify) ==
    IF node.kind \in {"nullptr", "N_NULL"} THEN R_NilValue
    ELSE IF node.kind = "N_BOOL"
    THEN Rf_allocVector("LGLSXP", <<IF node.bool_val THEN 1 ELSE 0>>)
    ELSE IF node.kind = "N_INT"
    THEN Rf_allocVector("INTSXP", <<node.int_val>>)
    ELSE IF node.kind = "N_DOUBLE"
    THEN Rf_allocVector("REALSXP", <<node.double_val>>)
    ELSE IF node.kind = "N_STRING"
    THEN Rf_allocVector("STRSXP", <<node.string_val>>)
    ELSE IF node.kind = "N_ARRAY"
    THEN ArrayToSexp(node.array_items,
                     IF Len(node.array_items) > 0
                     THEN SimplifyScan(node.array_items,
                                       node.array_items[1].kind, TRUE)
                     ELSE SimplifyScan(<<>>, "N_NULL", TRUE),
                     simplify)
    ELSE [type |-> "VECSXP", named |-> TRUE,
          names |-> [i \in 1..Len(node.object_items) |->
                        node.object_items[i].first],
          v |-> [i \in 1..Len(node.object_items) |->
                    node_to_sexp(node.object_items[i].second, simplify)]]

(***************************************************************************)
(* A tree round trip: a value tree is encoded, the text is parsed back     *)
(* (from_toon), and the text is formatted (format_toon) under the same     *)
(* canonical option.  The trees are the scalars, the arrays of scalars,    *)
(* the objects of scalars, an object holding an array or an object, and    *)
(* the arrays of objects; their doubles are finite.                        *)
(***************************************************************************)
MaxItems == 2

Scalars ==
    { make_null, make_bool(TRUE), make_int(7),
      make_double([neg |-> FALSE, ip |-> <<"1">>, fp |-> <<"5">>]),
      make_string(<<"x">>) }

ArraysOf(S) ==
    { make_array(items) : items \in UNION {[1..n -> S] : n \in 0..MaxItems} }

Field(key, value) == [first |-> key, second |-> value]

ObjectsOf(keys, S) == { make_object(<<Field(k, v)>>) : k \in keys, v \in S }

PairsOf(S) ==
    { make_object(<<Field(k[1], v[1]), Field(k[2], v[2])>>) :
        k \in {<<<<"a">>, <<"b">>>>, <<<<"b">>, <<"a">>>>}, v \in S \X S }

Trees ==
    Scalars \cup ArraysOf(Scalars) \cup ObjectsOf({<<"a">>, <<"b">>}, Scalars)
    \cup PairsOf(Scalars)
    \cup ObjectsOf({<<"k">>}, ArraysOf(Scalars) \cup PairsOf(Scalars))
    \cup ArraysOf(ObjectsOf({<<"a">>}, Scalars))

InitTree ==
    /\ \E t \in Trees, simplify \in BOOLEAN, canonical \in BOOLEAN :
          rt = [pc |-> "tree", t |-> t, simplify |-> simplify,
                canonical |-> canonical, text |-> <<>>, parsed |-> nullptr,
                formatted |-> <<>>, err |-> <<>>]
    /\ cb = Idle /\ tab = Idle /\ strm = Idle

\* Encoder::encode of the R value of the tree (strict by default)
Encode ==
    /\ rt.pc = "tree"
    /\ \E x \in {node_to_sexp(rt.t, rt.simplify)},
          opts \in {EncodeOptions(TRUE, rt.canonical)} :
          IF EncodeThrows(x, opts)
          THEN rt' = [rt EXCEPT !.pc = "error",
                        !.err = <<"NaN values not allowed in strict mode">>]
          ELSE rt' = [rt EXCEPT !.pc = "encoded", !.text = encode(x, opts)]
    /\ UNCHANGED <<cb, tab, strm>>

\* C_from_toon on the text; parsed is the tree handed to node_to_sexp
C_from_toon ==
    /\ rt.pc = "encoded"
    /\ \E r \in {parse_string(rt.text, ParseOptions(TRUE, rt.simplify))} :
          IF r.p.err # <<>>
          THEN rt' = [rt EXCEPT !.pc = "error", !.err = r.p.err]
          ELSE rt' = [rt EXCEPT !.pc = "parsed", !.parsed = r.node]
    /\ UNCHANGED <<cb, tab, strm>>

\* C_format_toon on the text
C_format_toon ==
    /\ rt.pc = "parsed"
    /\ \E r \in {parse_string(rt.text, ParseOptions(TRUE, FALSE))},
          enc_opts \in {EncodeOptions(TRUE, rt.canonical)} :
          IF r.p.err # <<>>
          THEN rt' = [rt EXCEPT !.pc = "error", !.err = r.p.err]
          ELSE \E r_node \in {node_to_sexp(r.node, FALSE)} :
                 IF EncodeThrows(r_node, enc_opts)
                 THEN rt' = [rt EXCEPT !.pc = "error",
                               !.err = <<"NaN values not allowed in strict mode">>]
                 ELSE rt' = [rt EXCEPT !.pc = "done",
                               !.formatted = encode(r_node, enc_opts)]
    /\ UNCHANGED <<cb, tab, strm>>

NextTree == Encode \/ C_from_toon \/ C_format_toon

SpecTree == InitTree /\ [][NextTree]_vars

NotNullField(kv) == kv.second.kind # "N_NULL"

\* a tree with the differences the round trip may make taken away: an
\* integer is the double of its value, a missing value is null, an object
\* has no null-valued fields and its fields are in the order of their keys
RECURSIVE Normal(_)
Normal(node) ==
    IF node.kind \in {"nullptr", "N_NULL"} THEN make_null
    ELSE IF node.kind = "N_INT" THEN make_double(IntToDouble(node.int_val))
    ELSE IF node.kind = "N_ARRAY"
    THEN make_array([i \in 1..Len(node.array_items) |->
                        Normal(node.array_items[i])])
    ELSE IF node.kind = "N_OBJECT"
    THEN make_object(SortItems(SelectSeq(
            [i \in 1..Len(node.object_items) |->
                Field(node.object_items[i].first,
                      Normal(node.object_items[i].second))],
            NotNullField)))
    ELSE node

\* C3: when encoding and parsing have both succeeded, the parsed tree is the
\* encoded tree up to integer/double width, null normalisation and the
\* order of the fields of an object; so an array under an object key, an
\* empty array and an array of objects come back as the same array.  The
\* trees are compared where the R value keeps every array a list
\* (simplify = FALSE): an atomic vector of one element is the scalar.
C3_TreeRoundTrip ==
    (rt.pc \in {"parsed", "done"} /\ ~rt.simplify) =>
        Normal(rt.parsed) = Normal(rt.t)

\* C4: formatting the canonical encoding of a tree with the canonical
\* option gives back the same text, byte for byte.
C4_CanonicalIdempotent ==
    (rt.pc = "done" /\ rt.canonical) => rt.formatted = rt.text

(***************************************************************************)
(* A table round trip: write_table (C_write_toon_df) writes a data frame   *)
(* as a tabular array and read_table (C_read_toon_df) reads the file back. *)
(* A data frame is its columns [name, type, vals]; the tables have one     *)
(* column of up to MaxCells rows or two columns of one row.                *)
(***************************************************************************)
MaxCells == 2

INT32_MIN_REAL == [neg |-> TRUE, ip |-> INT32_MIN_DIGITS, fp |-> <<>>]

CellsOf(type) ==
    IF type = "LOGICAL" THEN {1, 0, NA_LOGICAL}
    ELSE IF type = "INTEGER" THEN {7, -3, NA_INTEGER}
    ELSE IF type = "DOUBLE"
    THEN {[neg |-> FALSE, ip |-> <<"1">>, fp |-> <<"5">>], INT32_MIN_REAL,
          NA_REAL}
    ELSE {<<"x">>, <<"\f">>, <<"\"", "#">>, NA_STRING}

ColumnsOf(name, n) ==
    UNION { {[name |-> name, type |-> type, vals |-> vals] :
                vals \in [1..n -> CellsOf(type)]} :
            type \in {"LOGICAL", "INTEGER", "DOUBLE", "STRING"} }

Tables ==
    UNION { {<<c>> : c \in ColumnsOf(<<"a">>, n)} : n \in 1..MaxCells }
    \cup {<<c, d>> : c \in ColumnsOf(<<"a">>, 1), d \in ColumnsOf(<<"b">>, 1)}

InitRound ==
    /\ \E T \in Tables, strict \in BOOLEAN :
          rt = [pc |-> "table", T |-> T, strict |-> strict, text |-> <<>>,
                err |-> <<>>]
    /\ cb = Idle /\ tab = Idle /\ strm = Idle

\* C_write_toon_df with tabular = TRUE: the text is the content of the file
C_write_toon_df ==
    /\ rt.pc = "table"
    /\ \E opts \in {EncodeOptions(rt.strict, FALSE)} :
          IF TableThrows(rt.T, opts)
          THEN rt' = [rt EXCEPT !.pc = "error",
                        !.err = <<"NaN values not allowed in strict mode">>]
          ELSE rt' = [rt EXCEPT !.pc = "written",
                        !.text = encode_dataframe(rt.T, opts)]
    /\ UNCHANGED <<cb, tab, strm>>

\* C_read_toon_df on the file: the parser is made over its lines; TabOpen,
\* TabRow and TabFinish are the steps of parse_file
C_read_toon_df ==
    /\ rt.pc = "written"
    /\ rt' = [rt EXCEPT !.pc = "reading"]
    /\ tab' = TabularParser(ReadLines(rt.text), Options(<<>>, "expand_warn"))
    /\ UNCHANGED <<cb, strm>>

\* no row of a written table has more fields than the header, so no
\* na_mask_ is read beyond its size and TabAbort is never enabled here
NextRound ==
    \/ C_write_toon_df \/ C_read_toon_df
    \/ TabOpen \/ TabRow \/ TabFinish

SpecRound == InitRound /\ [][NextRound]_vars

\* column j of the data frames a and b: the same name, as many cells, and the
\* same cell in every row once both are promoted to the join of the types
SameColumn(a, b, j) ==
    /\ a[j].name = b[j].name
    /\ Len(a[j].vals) = Len(b[j].vals)
    /\ \A i \in 1..Len(a[j].vals) :
          Promoted(a[j].type, a[j].vals[i], Join(a[j].type, b[j].type))
              = Promoted(b[j].type, b[j].vals[i], Join(a[j].type, b[j].type))

\* C2: writing a table succeeds, reading the written text back succeeds, and
\* the table read has the columns of the table written: the same names and,
\* after promotion to the common type, the same cells.
C2_TableRoundTrip ==
    /\ rt.pc # "error"
    /\ tab.pc \notin {"error", "aborted"}
    /\ tab.pc = "done" =>
          /\ Len(tab.out) = Len(rt.T)
          /\ \A j \in 1..Len(rt.T) : SameColumn(rt.T, tab.out, j)

(***************************************************************************)
(* The interrupt check of RowStreamer::stream.  What a line holds does not *)
(* reach check_interrupt_counter, so a round of the row loop is taken by   *)
(* its outcome: the line is skipped (blank or comment), it throws (ragged  *)
(* row or column cap), or it is ingested as a row.  unprobed counts the    *)
(* rows ingested since R_CheckUserInterrupt was last called, probes the    *)
(* calls.                                                                  *)
(***************************************************************************)
CheckInterval == 10000

MaxIngested == 20001

\* a test that lets one more row pass before the check
InterruptLate(counter) == counter > CheckInterval

\* "++check_interrupt_counter >= 10000", counter being the raised value
InterruptDue(counter) == counter >= CheckInterval

BatchSizes == 1..MaxBatch \cup {CheckInterval + 1}

InitProbe ==
    /\ \E bs \in BatchSizes :
          strm = [pc |-> "rows", batch_size |-> bs, batch_rows_ |-> 0,
                  observed_rows_ |-> 0, check_interrupt_counter |-> 0,
                  emitted |-> 0, unprobed |-> 0, probes |-> 0]
    /\ cb = Idle /\ tab = Idle /\ rt = Idle

\* the end of a round that ingested a row: the batch test and the interrupt
\* check, rows being the raised batch_rows_
ProbeRow(st, rows) ==
    [st EXCEPT
        !.observed_rows_ = @ + 1,
        !.batch_rows_ = IF BatchFull(rows, st.batch_size) THEN 0 ELSE rows,
        !.emitted = IF BatchFull(rows, st.batch_size) THEN @ + rows ELSE @,
        !.check_interrupt_counter =
            IF InterruptDue(@ + 1) THEN 0 ELSE @ + 1,
        !.unprobed =
            IF InterruptDue(st.check_interrupt_counter + 1) THEN 0 ELSE @ + 1,
        !.probes =
            IF InterruptDue(st.check_interrupt_counter + 1) THEN @ + 1 ELSE @]

\* one round of the row loop
ProbeLine ==
    /\ strm.pc = "rows"
    /\ strm.observed_rows_ < MaxIngested
    /\ \E outcome \in {"skip", "throw", "row"} :
          IF outcome = "skip" THEN strm' = strm
          ELSE IF outcome = "throw" THEN strm' = [strm EXCEPT !.pc = "error"]
          ELSE strm' = ProbeRow(strm, strm.batch_rows_ + 1)
    /\ UNCHANGED <<cb, tab, rt>>

\* the reader is at its end: the final batch and the row-count check
ProbeFinish ==
    /\ strm.pc = "rows"
    /\ \E mismatch \in BOOLEAN :
          strm' = [strm EXCEPT
                     !.pc = IF mismatch THEN "error" ELSE "done",
                     !.emitted = @ + strm.batch_rows_]
    /\ UNCHANGED <<cb, tab, rt>>

NextProbe == ProbeLine \/ ProbeFinish

SpecProbe == InitProbe /\ [][NextProbe]_vars

\* C11: at no point of a stream have 10000 rows been ingested since the
\* last call of the interrupt check (or since the start), whatever the
\* batch size: every run of 10000 consecutive rows has a call in it.
C11_ProbeEveryInterval == strm.unprobed < CheckInterval

\* the check has been called and the stream has gone on, with batches
\* larger than the interval
C11_Witness ==
    /\ strm.probes = 1
    /\ strm.batch_size > CheckInterval
    /\ strm.observed_rows_ = CheckInterval + 1
    /\ strm.unprobed = 1

(***************************************************************************)
(* read_table and stream_rows under a finite max_extra_cols.               *)
(***************************************************************************)
MaxExtraCols == 2

CapOptions(col_types, max_extra_cols) ==
    [Options(col_types, "expand_warn") EXCEPT
        !.max_extra_cols = max_extra_cols]

\* rows of 1, 2, 3 and 4 fields
CapRowLines ==
    { <<" ", " ", "t", "r", "u", "e">>,
      <<" ", " ", "1", ",", "x">>,
      <<" ", " ", "1", ",", "2", ",", "3">>,
      <<" ", " ", "7", ",", "2", ",", "n", "u", "l", "l", ",", "3">> }

CapRowSeqs == UNION {[1..n -> CapRowLines] : n \in 0..MaxRows}

InitCap ==
    /\ \E rows \in CapRowSeqs, ct \in ColTypeOpts, cap \in 0..MaxExtraCols,
          bs \in 1..MaxBatch :
          /\ tab = TabularParser(<<HeaderLine>> \o rows, CapOptions(ct, cap))
          /\ strm = RowStreamer(<<HeaderLine>> \o rows, CapOptions(ct, cap),
                                bs, {TRUE})
    /\ cb = Idle /\ rt = Idle

SpecCap == InitCap /\ [][NextTable]_vars

\* the number of fields of an input line, 0 for a line that is skipped
FieldCount(line) ==
    IF RowContent(line, TRUE).skip THEN 0
    ELSE Len(split_row(RowContent(line, TRUE).content, ","))

\* the width of the schema after the input lines up to the n-th: the
\* header's, or that of the widest row among them
RECURSIVE WidthAfter(_, _)
WidthAfter(input, n) ==
    IF n <= 1 THEN Len(HeaderParts(input[1]).field_names_)
    ELSE Max(WidthAfter(input, n - 1), FieldCount(input[n]))

\* the run st with columns columns keeps to the cap
Capped(st, columns) ==
    /\ st.pc \notin {"idle", "start"} =>
          /\ Len(st.field_names_) = Len(columns)
          /\ Len(st.field_names_) = WidthAfter(st.input, 1)
                                        + st.schema_expansions_
          /\ st.schema_expansions_ <= st.opts.max_extra_cols
    /\ st.pc \in {"rows", "done"} =>
          /\ Len(st.field_names_) = WidthAfter(st.input, st.line_no)
    /\ (st.pc = "error" /\ st.line_no > 1) =>
          /\ st.err = "max_extra_cols"
          /\ FieldCount(st.input[st.line_no])
                > WidthAfter(st.input, 1) + st.opts.max_extra_cols
          /\ Len(st.field_names_) = WidthAfter(st.input, st.line_no - 1)

\* C12: in every state of a read or a stream the columns beyond the header's
\* are at most max_extra_cols; a row is ingested only if it keeps the total
\* within the cap, and the row that does not ends the run in error with the
\* columns as they were before it.
C12_BoundedExpansion == Capped(tab, tab.columns_) /\ Capped(strm, strm.batch_columns_)

\* a 3-field row has added V3 under a cap of 1 and the 4-field row after it
\* has failed both runs
C12_Witness ==
    /\ tab.pc = "error" /\ tab.err = "max_extra_cols"
    /\ tab.opts.max_extra_cols = 1 /\ tab.schema_expansions_ = 1
    /\ strm.pc = "error" /\ strm.err = "max_extra_cols"
    /\ strm.schema_expansions_ = 1 /\ Len(strm.field_names_) = 3

(***************************************************************************)
(* The warnings at the end of a read.                                      *)
(***************************************************************************)
\* the n-th input line is a row whose field count is not the width of the
\* schema after the lines before it
IsRagged(input, n) ==
    /\ ~RowContent(input[n], TRUE).skip
    /\ FieldCount(input[n]) # WidthAfter(input, n - 1)

IsRaggedWarning(w) == w = "ragged_rows"

\* C13: a read under expand_warn with warnings enabled ends with exactly one
\* ragged_rows warning when some row's field count differed from the width
\* of the schema in force when it was ingested, and with none otherwise.
C13_RaggedWarning ==
    (tab.pc = "done" /\ tab.opts.ragged_rows = "expand_warn" /\ tab.opts.warn)
    => Len(SelectSeq(tab.warnings_, IsRaggedWarning))
          = IF \E n \in 2..Len(tab.input) : IsRagged(tab.input, n)
            THEN 1 ELSE 0

(***************************************************************************)
(* read_table and stream_rows under both n_mismatch modes, on inputs whose *)
(* header declares a row count or none, after a line that may look like a  *)
(* header but is not one.                                                  *)
(***************************************************************************)
CountOptions(col_types, n_mismatch) ==
    [Options(col_types, "expand_warn") EXCEPT !.n_mismatch = n_mismatch]

\* nothing, or "[3]{}:", a header candidate that parse_header rejects
CountPrefixes == { <<>>, << <<"[", "3", "]", "{", "}", ":">> >> }

CountHeaders == { HeaderLine, <<"[", "]", "{", "a", ",", "b", "}", ":">> }

InitCount ==
    /\ \E pre \in CountPrefixes, h \in CountHeaders, rows \in CapRowSeqs,
          ct \in ColTypeOpts, nm \in {"warn", "error"}, bs \in 1..MaxBatch :
          /\ tab = TabularParser(pre \o <<h>> \o rows, CountOptions(ct, nm))
          /\ strm = RowStreamer(pre \o <<h>> \o rows, CountOptions(ct, nm),
                                bs, {TRUE})
    /\ cb = Idle /\ rt = Idle

SpecCount == InitCount /\ [][NextTable]_vars

IsMismatchWarning(w) == w = "n_mismatch"

\* the end of a run st whose header declares N rows
CountChecked(st, N) ==
    /\ st.pc = "done" =>
          /\ Len(SelectSeq(st.warnings_, IsMismatchWarning))
                = IF N > 0 /\ st.observed_rows_ # N THEN 1 ELSE 0
          /\ (N > 0 /\ st.observed_rows_ # N) => st.opts.n_mismatch = "warn"
    /\ (st.pc = "error" /\ st.err = "n_mismatch") =>
          /\ N > 0 /\ st.observed_rows_ # N
          /\ st.opts.n_mismatch = "error"

\* the row count declared by the header line a run has taken
DeclaredBy(input, idx) ==
    IF idx = 0 THEN 0 ELSE HeaderParts(input[idx]).declared_rows_

\* the row-count check of read_table
TableCountChecked ==
    tab.pc \in {"done", "error"} =>
        CountChecked(tab, DeclaredBy(tab.input,
                        find_tabular_array(tab.input, TRUE)))

\* the row-count check of stream_rows
StreamCountChecked ==
    strm.pc \in {"done", "error"} =>
        CountChecked(strm, DeclaredBy(strm.input,
                        find_tabular_header(strm.input, 1, TRUE, 0).idx))

\* C14: a run whose header declares N > 0 rows and that has observed another
\* number ends with exactly one n_mismatch warning under "warn" and in error
\* under "error"; a run whose header declares no count, or whose count is
\* the observed one, ends with neither; for read_table and for stream_rows.
C14_CountMismatch == TableCountChecked /\ StreamCountChecked

(***************************************************************************)
(* read_table and stream_rows on inputs in which a line at the indent of   *)
(* the header may follow the rows.                                         *)
(***************************************************************************)
\* "k: 1", a line at indent 0
DedentLine == <<"k", ":", " ", "1">>

ExtentRowSeqs ==
    UNION {[1..n -> CapRowLines \cup {DedentLine}] : n \in 0..MaxRows}

InitExtent ==
    /\ \E rows \in ExtentRowSeqs, ct \in ColTypeOpts, bs \in 1..MaxBatch :
          /\ tab = TabularParser(<<HeaderLine>> \o rows,
                                 Options(ct, "expand_warn"))
          /\ strm = RowStreamer(<<HeaderLine>> \o rows,
                                Options(ct, "expand_warn"), bs, {TRUE})
    /\ cb = Idle /\ rt = Idle

SpecExtent == InitExtent /\ [][NextTable]_vars

\* the n-th input line is not blank, not a comment, and indented no deeper
\* than the header line
EndsTable(input, n) ==
    /\ ~RowContent(input[n], TRUE).skip
    /\ CountIndent(input[n]) <= CountIndent(input[1])

\* the number of rows among the input lines 2..n
RECURSIVE RowsUpTo(_, _)
RowsUpTo(input, n) ==
    IF n <= 1 THEN 0
    ELSE RowsUpTo(input, n - 1)
         + (IF RowContent(input[n], TRUE).skip THEN 0 ELSE 1)

\* the number of rows of the table of an input: those before the first
\* line that ends it
TableRows(input) ==
    IF \E n \in 2..Len(input) : EndsTable(input, n)
    THEN RowsUpTo(input,
            MinOf({n \in 2..Len(input) : EndsTable(input, n)}) - 1)
    ELSE RowsUpTo(input, Len(input))

\* C15: a run never ingests more rows than there are lines indented deeper
\* than the header before the first line at the header's indent or less;
\* that line and the lines after it are never stored as rows, by read_table
\* and by stream_rows.
C15_TableExtent ==
    /\ tab.pc # "idle" => tab.observed_rows_ <= TableRows(tab.input)
    /\ strm.pc # "idle" => strm.observed_rows_ <= TableRows(strm.input)

(***************************************************************************)
(* read_table and stream_rows with a key, on inputs in which the key may   *)
(* occur at the top level and nested under another key.                    *)
(***************************************************************************)
\* "m:", "  d: [1]{x,y}:", "d: [1]{a,b}:", "d:", "  [1]{a,b}:", rows
KeyLines ==
    { <<"m", ":">>,
      <<" ", " ", "d", ":", " ", "[", "1", "]", "{", "x", ",", "y", "}", ":">>,
      <<"d", ":", " ", "[", "1", "]", "{", "a", ",", "b", "}", ":">>,
      <<"d", ":">>,
      <<" ", " ", "[", "1", "]", "{", "a", ",", "b", "}", ":">>,
      <<" ", " ", "1", ",", "x">>,
      <<" ", " ", "t", "r", "u", "e">> }

KeyInputs == UNION {[1..n -> KeyLines] : n \in 0..MaxRows}

KeyOptions(col_types, key) ==
    [Options(col_types, "expand_warn") EXCEPT !.key = key]

InitKey ==
    /\ \E lines \in KeyInputs, ct \in ColTypeOpts,
          key \in {nullopt, Key(<<"d">>)}, bs \in 1..MaxBatch :
          /\ tab = TabularParser(lines, KeyOptions(ct, key))
          /\ strm = RowStreamer(lines, KeyOptions(ct, key), bs, {TRUE})
    /\ cb = Idle /\ rt = Idle

SpecKey == InitKey /\ [][NextTable]_vars

\* the n-th input line is a top-level line whose key is key
IsTopLevelKey(input, n, key) ==
    /\ CountIndent(input[n]) = 0
    /\ IsKeyLine(trim(input[n]), IndexFrom(trim(input[n]), ":", 1), key, TRUE)

\* the field names of the header that belongs to the key line k: those of
\* its inline value, or of the first header line among the lines nested
\* under it; <<>> if it has no header
FieldsUnder(input, k) ==
    LET inline == trim(SubSeq(trim(input[k]),
                              IndexFrom(trim(input[k]), ":", 1) + 1,
                              Len(trim(input[k]))))
        nested == {i \in k + 1..Len(input) :
                      /\ \A j \in k + 1..i : CountIndent(input[j]) > 0
                      /\ IsHeaderCandidate(input[i], TRUE)}
    IN  IF Len(inline) > 0 /\ inline[1] = "["
        THEN HeaderParts(inline).field_names_
        ELSE IF nested = {} THEN <<>>
        ELSE HeaderParts(input[MinOf(nested)]).field_names_

\* a run st with a key that has found a header has found that of the first
\* top-level line with the key
KeyHonoured(st) ==
    (st.pc = "rows" /\ st.opts.key.has_value /\ st.schema_expansions_ = 0) =>
        /\ \E n \in 1..Len(st.input) :
              IsTopLevelKey(st.input, n, st.opts.key.value)
        /\ st.field_names_ =
              FieldsUnder(st.input,
                  MinOf({n \in 1..Len(st.input) :
                            IsTopLevelKey(st.input, n, st.opts.key.value)}))

\* C16: with a key, the header a read or a stream uses is the one of the
\* top-level line whose key is the supplied key; a line with that key text
\* nested under another key is not taken.
C16_TopLevelKey == KeyHonoured(tab) /\ KeyHonoured(strm)

(***************************************************************************)
(* The row splitters on every line of up to MaxLine characters over        *)
(* letters, the delimiter, the double quote and the backslash.             *)
(***************************************************************************)
MaxLine == 5

LineChars == {"a", "b", ",", "\"", "\\"}

InitSplit ==
    /\ \E line \in UNION {[1..n -> LineChars] : n \in 0..MaxLine} :
          rt = [pc |-> "line", line |-> line, fields |-> <<>>,
                dom_fields |-> <<>>]
    /\ cb = Idle /\ tab = Idle /\ strm = Idle

\* TabularParser::split_row and RowStreamer::split_row
SplitRow ==
    /\ rt.pc = "line"
    /\ rt' = [rt EXCEPT !.pc = "split", !.fields = split_row(rt.line, ",")]
    /\ UNCHANGED <<cb, tab, strm>>

\* Parser::parse_tabular_row
ParseTabularRow ==
    /\ rt.pc = "split"
    /\ rt' = [rt EXCEPT !.pc = "done",
                        !.dom_fields = parse_tabular_row(rt.line, ",")]
    /\ UNCHANGED <<cb, tab, strm>>

NextSplit == SplitRow \/ ParseTabularRow

SpecSplit == InitSplit /\ [][NextSplit]_vars

\* after the first n characters of a line: inside a double-quoted section
\* or not, and whether the next character is escaped by a backslash
RECURSIVE Quoted(_, _)
Quoted(line, n) ==
    IF n = 0 THEN [in |-> FALSE, esc |-> FALSE]
    ELSE LET q == Quoted(line, n - 1) IN
         IF q.esc THEN [in |-> q.in, esc |-> FALSE]
         ELSE IF line[n] = "\\" /\ q.in THEN [in |-> TRUE, esc |-> TRUE]
         ELSE IF line[n] = "\"" THEN [in |-> ~q.in, esc |-> FALSE]
         ELSE q

\* the positions of the delimiters outside the double-quoted sections
Delimiters(line) ==
    {i \in 1..Len(line) :
        /\ line[i] = ","
        /\ ~Quoted(line, i - 1).in}

\* the k-th element of a set of numbers in increasing order
RECURSIVE Nth(_, _)
Nth(S, k) == IF k = 1 THEN MinOf(S) ELSE Nth(S \ {MinOf(S)}, k - 1)

\* the fields of a line: the trimmed stretches between the delimiters
\* outside quotes
FieldsOf(line) ==
    LET D == Delimiters(line)
        n == Cardinality(D)
        from(k) == IF k = 1 THEN 1 ELSE Nth(D, k - 1) + 1
        to(k) == IF k = n + 1 THEN Len(line) ELSE Nth(D, k) - 1
    IN  [k \in 1..n + 1 |-> trim(SubSeq(line, from(k), to(k)))]

\* C17: the fields of a row line are one more than its delimiters outside
\* double-quoted sections (a backslash inside quotes escaping the next
\* character) and are the stretches between those delimiters, so that a
\* comma inside a quoted field does not split it; for the table reader's,
\* the streamer's and the parser's splitter.
C17_SplitRespectsQuotes ==
    /\ rt.pc \in {"split", "done"} =>
          /\ Len(rt.fields) = 1 + Cardinality(Delimiters(rt.line))
          /\ rt.fields = FieldsOf(rt.line)
    /\ rt.pc = "done" =>
          /\ Len(rt.dom_fields) = 1 + Cardinality(Delimiters(rt.line))
          /\ rt.dom_fields = FieldsOf(rt.line)

\* the line "a,b" in quotes has come out of both splitters as one field
C17_Witness ==
    /\ rt.pc = "done"
    /\ rt.line = <<"\"", "a", ",", "b", "\"">>
    /\ rt.fields = <<rt.line>>
    /\ rt.dom_fields = <<rt.line>>

(***************************************************************************)
(* The typing of integer texts: each text is scanned by parse_primitive    *)
(* and set into row 0 of a new column, which is then finalised.  The texts *)
(* spell the small integers and the integers at both ends of the signed    *)
(* 32-bit range.                                                           *)
(***************************************************************************)
MaxSmall == 20

INT32_MAX == 2147483647

IntText(v) == (IF v < 0 THEN <<"-">> ELSE <<>>) \o AbsDigits(v)

Int32Values ==
    (0 - MaxSmall)..MaxSmall
    \cup {NA_INTEGER, NA_INTEGER + 1, NA_INTEGER + 2, INT32_MAX - 1, INT32_MAX}

InitSentinel ==
    /\ \E v \in Int32Values :
          rt = [pc |-> "text", value |-> v, text |-> IntText(v),
                node |-> nullptr, out |-> NoOut]
    /\ cb = Idle /\ tab = Idle /\ strm = Idle

\* Parser::parse_primitive on the text
ParsePrimitive ==
    /\ rt.pc = "text"
    /\ rt' = [rt EXCEPT !.pc = "scanned",
                        !.node = parse_primitive(rt.text,
                                                 ParseOptions(TRUE, TRUE))]
    /\ UNCHANGED <<cb, tab, strm>>

\* ColBuilder::set of the text into row 0 of a new column, and finalize
ColSet ==
    /\ rt.pc = "scanned"
    /\ rt' = [rt EXCEPT !.pc = "done",
                        !.out = finalize(set(ColBuilder(<<"c">>), 0, rt.text))]
    /\ UNCHANGED <<cb, tab, strm>>

NextSentinel == ParsePrimitive \/ ColSet

SpecSentinel == InitSentinel /\ [][NextSentinel]_vars

\* C18: the text of the integer NA sentinel -2147483648 is typed as a DOUBLE
\* of that exact value by the primitive scanner and by the column builder;
\* every other integer text of the signed 32-bit range is typed as an
\* integer of its value by both.
C18_SentinelIsDouble ==
    /\ rt.pc \in {"scanned", "done"} =>
          rt.node = IF rt.value = NA_INTEGER
                    THEN make_double(IntToDouble(rt.value))
                    ELSE make_int(rt.value)
    /\ rt.pc = "done" =>
          /\ rt.out.type = IF rt.value = NA_INTEGER THEN "DOUBLE"
                           ELSE "INTEGER"
          /\ rt.out.vals = IF rt.value = NA_INTEGER
                           THEN <<IntToDouble(rt.value)>>
                           ELSE <<rt.value>>

(***************************************************************************)
(* from_toon on a text and on the same text with every LF turned into      *)
(* CRLF.  A text is up to MaxTextLines lines joined by LF, with or without *)
(* a final LF.                                                             *)
(***************************************************************************)
MaxTextLines == 3

\* "a: 1", "b:", "  c: x", "- 2", "  - 3", "k: "s"", "# c", "" and a line
\* with a carriage return in its middle
TextLines ==
    { <<"a", ":", " ", "1">>,
      <<"b", ":">>,
      <<" ", " ", "c", ":", " ", "x">>,
      <<"-", " ", "2">>,
      <<" ", " ", "-", " ", "3">>,
      <<"k", ":", " ", "\"", "s", "\"">>,
      <<"#", " ", "c">>,
      <<>>,
      <<"t", "\r", "u", ":", " ", "1">> }

\* the lines joined by LF
RECURSIVE JoinLines(_)
JoinLines(ls) ==
    IF Len(ls) = 0 THEN <<>>
    ELSE IF Len(ls) = 1 THEN ls[1]
    ELSE ls[1] \o <<"\n">> \o JoinLines(Tail(ls))

\* the text with every LF replaced by CR LF
RECURSIVE ToCRLF(_)
ToCRLF(text) ==
    IF Len(text) = 0 THEN <<>>
    ELSE (IF text[1] = "\n" THEN <<"\r", "\n">> ELSE <<text[1]>>)
         \o ToCRLF(Tail(text))

\* what a parse leaves: the tree, the error and the warnings
Outcome(r) ==
    [node |-> r.node, err |-> r.p.err, err_at |-> r.p.err_at,
     warnings_ |-> r.p.warnings_]

NoOutcome ==
    [node |-> nullptr, err |-> <<>>, err_at |-> ParseError(0, 0, <<>>),
     warnings_ |-> <<>>]

InitLines ==
    /\ \E ls \in UNION {[1..n -> TextLines] : n \in 0..MaxTextLines},
          final \in {<<>>, <<"\n">>}, strict \in BOOLEAN :
          rt = [pc |-> "text", text |-> JoinLines(ls) \o final,
                strict |-> strict, lf |-> NoOutcome, crlf |-> NoOutcome]
    /\ cb = Idle /\ tab = Idle /\ strm = Idle

\* Parser::parse_string on the text
ParseLF ==
    /\ rt.pc = "text"
    /\ rt' = [rt EXCEPT
                !.pc = "lf",
                !.lf = Outcome(parse_string(rt.text,
                                            ParseOptions(rt.strict, TRUE)))]
    /\ UNCHANGED <<cb, tab, strm>>

\* Parser::parse_string on the text with CRLF line endings
ParseCRLF ==
    /\ rt.pc = "lf"
    /\ rt' = [rt EXCEPT
                !.pc = "done",
                !.crlf = Outcome(parse_string(ToCRLF(rt.text),
                                              ParseOptions(rt.strict, TRUE)))]
    /\ UNCHANGED <<cb, tab, strm>>

NextLines == ParseLF \/ ParseCRLF

SpecLines == InitLines /\ [][NextLines]_vars

\* C19: the parse of a text with LF line endings (no line of it ends in a
\* carriage return) and the parse of the text with every LF replaced by CRLF
\* end with the same tree, the same error and the same warnings.
C19_LineEndingIndependent == rt.pc = "done" => rt.crlf = rt.lf

\* the two-line text "b:" LF "  c: x" LF has been parsed both ways into the
\* object b holding the object c
C19_Witness ==
    /\ rt.pc = "done"
    /\ rt.text = <<"b", ":", "\n", " ", " ", "c", ":", " ", "x", "\n">>
    /\ rt.strict
    /\ rt.lf.err = <<>>
    /\ rt.lf.node.kind = "N_OBJECT"
    /\ rt.lf.node.object_items[1].second.kind = "N_OBJECT"
    /\ rt.crlf = rt.lf

(***************************************************************************)
(* from_toon on texts in which a key occurs several times: at the top      *)
(* level, in a nested object, and among the field names of a tabular       *)
(* header.  Duplicate keys are permitted (the default).                    *)
(***************************************************************************)
\* "a: 1", "a: 2", "b: 3"
FlatLines ==
    { <<"a", ":", " ", "1">>, <<"a", ":", " ", "2">>, <<"b", ":", " ", "3">> }

\* "a:", "  a: 4", "  b: 5", "[1]{a,a}:", "  1,2"
DupLines ==
    FlatLines
    \cup { <<"a", ":">>,
           <<" ", " ", "a", ":", " ", "4">>,
           <<" ", " ", "b", ":", " ", "5">>,
           <<"[", "1", "]", "{", "a", ",", "a", "}", ":">>,
           <<" ", " ", "1", ",", "2">> }

InitDup ==
    /\ \E ls \in UNION {[1..n -> DupLines] : n \in 1..MaxTextLines} :
          rt = [pc |-> "text", ls |-> ls, text |-> JoinLines(ls),
                parsed |-> NoOutcome]
    /\ cb = Idle /\ tab = Idle /\ strm = Idle

\* Parser::parse_string on the text
ParseText ==
    /\ rt.pc = "text"
    /\ rt' = [rt EXCEPT
                !.pc = "done",
                !.parsed = Outcome(parse_string(rt.text,
                                                ParseOptions(TRUE, TRUE)))]
    /\ UNCHANGED <<cb, tab, strm>>

SpecDup == InitDup /\ [][ParseText]_vars

\* every object of the tree has pairwise distinct keys
RECURSIVE DistinctKeys(_)
DistinctKeys(node) ==
    IF node.kind = "N_OBJECT"
    THEN /\ \A i, j \in 1..Len(node.object_items) :
               node.object_items[i].first = node.object_items[j].first
               => i = j
         /\ \A i \in 1..Len(node.object_items) :
               DistinctKeys(node.object_items[i].second)
    ELSE IF node.kind = "N_ARRAY"
    THEN \A i \in 1..Len(node.array_items) : DistinctKeys(node.array_items[i])
    ELSE TRUE

\* the lines of a text of "key: digit" lines alone give the object in which
\* each key has the digit of the last line with that key
LastWins(ls, node) ==
    (\A n \in 1..Len(ls) : ls[n] \in FlatLines) =>
        /\ node.kind = "N_OBJECT"
        /\ \A n \in 1..Len(ls) :
              (\A m \in n + 1..Len(ls) : ls[m][1] # ls[n][1]) =>
                 \E i \in 1..Len(node.object_items) :
                    /\ node.object_items[i].first = <<ls[n][1]>>
                    /\ node.object_items[i].second
                          = make_int(DigitVal(ls[n][4]))

\* the objects that parse_object builds keep to both
ObjectsDistinctLastWins ==
    (rt.pc = "done" /\ rt.parsed.err = <<>>
       /\ \A n \in 1..Len(rt.ls) : Head(rt.ls[n]) # "[") =>
        /\ DistinctKeys(rt.parsed.node)
        /\ LastWins(rt.ls, rt.parsed.node)

\* C20: with duplicate keys permitted, every object of a parsed tree has
\* pairwise distinct keys, and a key that occurs several times at one level
\* has the value of its last occurrence.
C20_DistinctLastWins ==
    (rt.pc = "done" /\ rt.parsed.err = <<>>) =>
        /\ DistinctKeys(rt.parsed.node)
        /\ LastWins(rt.ls, rt.parsed.node)

(***************************************************************************)
(* The three parse paths in strict mode on inputs in which a row may be    *)
(* indented with a TAB: read_table, stream_rows, and from_toon on the same *)
(* lines joined by LF.                                                     *)
(***************************************************************************)
\* a row indented with one TAB
TabLine == <<"\t", "1", ",", "x">>

TabRowSeqs == UNION {[1..n -> CapRowLines \cup {TabLine}] : n \in 0..MaxRows}

InitTab ==
    /\ \E rows \in TabRowSeqs, ct \in ColTypeOpts, bs \in 1..MaxBatch :
          /\ tab = TabularParser(<<HeaderLine>> \o rows,
                                 Options(ct, "expand_warn"))
          /\ strm = RowStreamer(<<HeaderLine>> \o rows,
                                Options(ct, "expand_warn"), bs, {TRUE})
          /\ rt = [pc |-> "text", ls |-> <<HeaderLine>> \o rows,
                   text |-> JoinLines(<<HeaderLine>> \o rows),
                   parsed |-> NoOutcome]
    /\ cb = Idle

NextTab == NextTable \/ ParseText

SpecTab == InitTab /\ [][NextTab]_vars

\* the n-th input line is a data line with a TAB in its indentation
IsTabbed(input, n) ==
    TabInIndent(input[n]) /\ ~RowContent(input[n], TRUE).skip

\* a strict run st has gone past no data line with a TAB in its indentation
TabRejected(st) ==
    (st.opts.strict /\ st.pc \in {"rows", "done"}) =>
        \A n \in 2..st.line_no : ~IsTabbed(st.input, n)

\* C21: in strict mode a data line with a TAB in its indentation ends the
\* operation in error on each path: read_table and stream_rows never go
\* past such a line, and from_toon ends in error on a text that has one.
C21_TabRejected ==
    /\ tab.pc # "idle" => TabRejected(tab)
    /\ strm.pc # "idle" => TabRejected(strm)
    /\ (rt.pc = "done" /\ \E n \in 2..Len(rt.ls) : IsTabbed(rt.ls, n))
          => rt.parsed.err # <<>>

\* read_table and from_toon keep to it
TableAndTreeTabRejected ==
    /\ tab.pc # "idle" => TabRejected(tab)
    /\ (rt.pc = "done" /\ \E n \in 2..Len(rt.ls) : IsTabbed(rt.ls, n))
          => rt.parsed.err # <<>>

(***************************************************************************)
(* Error locations.  read_table and from_toon are run on the same lines;   *)
(* the tabular parser reads a header and rows (ragged rows fatal or not),  *)
(* the DOM parser reads the rows with or without the header before them.   *)
(* Each records the ParseError it throws: line, column and snippet.        *)
(***************************************************************************)
MaxSnippet == 60

RaggedOpts == {"expand_warn", "error"}

InitLoc ==
    /\ \E rows \in TabRowSeqs, ct \in ColTypeOpts, rr \in RaggedOpts,
          bare \in BOOLEAN :
          /\ tab = TabularParser(<<HeaderLine>> \o rows, Options(ct, rr))
          /\ \E ls \in {IF bare THEN rows ELSE <<HeaderLine>> \o rows} :
                rt = [pc |-> "text", ls |-> ls, text |-> JoinLines(ls),
                      parsed |-> NoOutcome]
    /\ cb = Idle
    /\ strm = Idle

NextLoc == TabOpen \/ TabRow \/ TabFinish \/ TabAbort \/ ParseText

SpecLoc == InitLoc /\ [][NextLoc]_vars

\* a ParseError that names the line it was raised for, a column in it and a
\* snippet of it
CarriesLocation(at, line) ==
    /\ at.line >= 1
    /\ at.line = line
    /\ at.column >= 1
    /\ at.snippet # <<>>
    /\ Len(at.snippet) <= MaxSnippet

\* C22: every fatal error the DOM parser or the tabular parser raises for an
\* input line carries that line's 1-indexed number, a 1-indexed column and
\* a non-empty snippet of at most 60 characters
C22_ErrorLocated ==
    /\ (tab.pc = "error" /\ tab.line_no >= 2) =>
          CarriesLocation(tab.err_at, tab.line_no)
    /\ (rt.pc = "done" /\ rt.parsed.err # <<>>) =>
          /\ rt.parsed.err_at.line \in 1..Len(rt.ls)
          /\ CarriesLocation(rt.parsed.err_at, rt.parsed.err_at.line)

(***************************************************************************)
(* validate_toon.  C_validate_toon is given a text, or the path of a file  *)
(* that can or cannot be opened, and the three parse options; it calls     *)
(* validate_string or validate_file and builds the result from the         *)
(* ValidationResult.  A result records what the caller gets: the logical   *)
(* with its error attribute, or an exception that left validate (raised).  *)
(***************************************************************************)
ValidateOptions(strict, allow_duplicate_keys) ==
    [strict |-> strict, simplify |-> TRUE, allow_comments |-> TRUE,
     allow_duplicate_keys |-> allow_duplicate_keys, warn |-> TRUE]

\* "a: 1", "a: 2", "  1,x", a TAB-indented line, a tabular header and ""
ValidateLines ==
    { <<"a", ":", " ", "1">>,
      <<"a", ":", " ", "2">>,
      <<" ", " ", "1", ",", "x">>,
      TabLine,
      HeaderLine,
      <<>> }

ValidationResult(valid, message, at) ==
    [valid |-> valid, message |-> message, line |-> at.line,
     column |-> at.column, snippet |-> at.snippet, raised |-> FALSE]

\* the body of the try block after the parse: a null node is an error
Returned(node) ==
    IF node = nullptr
    THEN ValidationResult(FALSE, "Failed to parse TOON", ParseError(0, 0, <<>>))
    ELSE ValidationResult(TRUE, "", ParseError(0, 0, <<>>))

\* the same without the catch clause: the ParseError leaves the function
\* and there is no result
Uncaught(o) ==
    IF o.err # <<>>
    THEN [valid |-> FALSE, message |-> "", line |-> 0, column |-> 0,
          snippet |-> <<>>, raised |-> TRUE]
    ELSE Returned(o.node)

\* try { parse } catch (const ParseError& e) of validate_string and
\* validate_file, on the outcome o of the parse
Validated(o) ==
    IF o.err # <<>>
    THEN ValidationResult(FALSE, o.err[1], o.err_at)
    ELSE Returned(o.node)

\* Parser::parse_file: the reader's error is thrown as a ParseError
parse_file(readable, text, opts) ==
    IF ~readable
    THEN [NoOutcome EXCEPT !.err = <<"Cannot open file">>]
    ELSE Outcome(parse_string(text, opts))

validate_string(text, opts) == Validated(Outcome(parse_string(text, opts)))

validate_file(readable, text, opts) ==
    Validated(parse_file(readable, text, opts))

NoResult == ValidationResult(TRUE, "", ParseError(0, 0, <<>>))

InitValidate ==
    /\ \E ls \in UNION {[1..n -> ValidateLines] : n \in 0..MaxTextLines},
          is_file \in BOOLEAN, readable \in BOOLEAN, strict \in BOOLEAN,
          allow_duplicate_keys \in BOOLEAN :
          /\ is_file \/ readable
          /\ rt = [pc |-> "call", text |-> JoinLines(ls), is_file |-> is_file,
                   readable |-> readable,
                   opts |-> ValidateOptions(strict, allow_duplicate_keys),
                   vr |-> NoResult]
    /\ cb = Idle /\ tab = Idle /\ strm = Idle

C_validate_toon ==
    /\ rt.pc = "call"
    /\ rt' = [rt EXCEPT
                !.pc = "returned",
                !.vr = IF rt.is_file
                       THEN validate_file(rt.readable, rt.text, rt.opts)
                       ELSE validate_string(rt.text, rt.opts)]
    /\ UNCHANGED <<cb, tab, strm>>

SpecValidate == InitValidate /\ [][C_validate_toon]_vars

\* C23: validate never raises: on an unreadable file, on malformed text and
\* on text that is fatal in strict mode it returns a result, ok or not ok
\* with a message, and no parse error reaches the caller
C23_ValidateNeverRaises ==
    rt.pc = "returned" =>
       /\ ~rt.vr.raised
       /\ rt.vr.valid \in BOOLEAN
       /\ ~rt.vr.valid => rt.vr.message # ""
       /\ (rt.is_file /\ ~rt.readable) => ~rt.vr.valid
       /\ rt.vr.valid <=>
             /\ ~rt.is_file \/ rt.readable
             /\ parse_string(rt.text, rt.opts).p.err = <<>>
             /\ parse_string(rt.text, rt.opts).node # nullptr

\* validate has returned not ok for a text that is fatal in strict mode
C23_Witness ==
    /\ rt.pc = "returned"
    /\ ~rt.vr.valid
    /\ rt.opts.strict
    /\ rt.vr.message = "Tab characters not allowed in indentation (strict mode)"

(***************************************************************************)
(* The order of object entries.  A named list (flat, holding a named list, *)
(* held by an unnamed list, or three levels deep) is encoded with and      *)
(* without the canonical option.  The keys are "b", "a", "ab" and "1" in   *)
(* every order, under the outer keys "k" and "c".  The emission order is   *)
(* read off the text: the key of every line that has one, top to bottom.   *)
(***************************************************************************)
MaxEntries == 3

OrderKeys == { <<"b">>, <<"a">>, <<"a", "b">>, <<"1">> }

Injective(s) == \A i, j \in 1..Len(s) : i # j => s[i] # s[j]

KeySeqs(n) == { ks \in [1..n -> OrderKeys] : Injective(ks) }

One == Rf_allocVector("INTSXP", <<1>>)

\* a named list with the names ks and the values vs
NamedList(ks, vs) == [type |-> "VECSXP", named |-> TRUE, names |-> ks, v |-> vs]

FlatObjects(n) == { NamedList(ks, [i \in 1..n |-> One]) : ks \in KeySeqs(n) }

OuterKeys == { <<<<"k">>, <<"c">>>>, <<<<"c">>, <<"k">>>> }

OrderValues ==
    UNION { FlatObjects(n) : n \in 2..MaxEntries }
    \cup { NamedList(ks, <<o, One>>) : ks \in OuterKeys, o \in FlatObjects(2) }
    \cup { NamedList(ks, <<One, o>>) : ks \in OuterKeys, o \in FlatObjects(2) }
    \cup { Rf_allocVector("VECSXP", <<o>>) : o \in FlatObjects(2) }
    \cup { NamedList(<<<<"k">>>>, <<NamedList(<<<<"c">>>>, <<o>>)>>) :
             o \in FlatObjects(2) }

InitOrder ==
    /\ \E x \in OrderValues, canonical \in BOOLEAN :
          rt = [pc |-> "value", x |-> x, canonical |-> canonical,
                text |-> <<>>]
    /\ cb = Idle /\ tab = Idle /\ strm = Idle

\* Encoder::encode of the value
EncodeValue ==
    /\ rt.pc = "value"
    /\ rt' = [rt EXCEPT
                !.pc = "encoded",
                !.text = encode(rt.x, EncodeOptions(TRUE, rt.canonical))]
    /\ UNCHANGED <<cb, tab, strm>>

SpecOrder == InitOrder /\ [][EncodeValue]_vars

\* the key a line of the output starts with, after its indentation and a
\* "- " item mark: <<key>>, or <<>> for a line without a key
KeyOfLine(line) ==
    LET s == TrimFront(line)
        t == IF Len(s) >= 2 /\ s[1] = "-" /\ s[2] = " "
             THEN TrimFront(SubSeq(s, 3, Len(s))) ELSE s
    IN  IF Len(t) > 0 /\ t[1] # "[" /\ Contains(t, ":")
        THEN <<SubSeq(t, 1, IndexFrom(t, ":", 1) - 1)>>
        ELSE <<>>

EmittedKeys(text) ==
    Concat([i \in 1..Len(ReadLines(text)) |-> KeyOfLine(ReadLines(text)[i])])

\* a is before b in byte-lexicographic order: a proper prefix of b, or
\* smaller at the first byte where they differ
ByteLexLess(a, b) ==
    \/ Len(a) < Len(b) /\ SubSeq(b, 1, Len(a)) = a
    \/ \E k \in 1..Len(a) :
          /\ k <= Len(b)
          /\ SubSeq(a, 1, k - 1) = SubSeq(b, 1, k - 1)
          /\ ByteOf(a[k]) < ByteOf(b[k])

\* the arrangement of the entries 1..n of an object: ascending by key in
\* canonical mode, as given otherwise
EntryOrder(names, canonical) ==
    IF canonical
    THEN CHOOSE p \in [1..Len(names) -> 1..Len(names)] :
            \A i, j \in 1..Len(names) :
               i < j => ByteLexLess(names[p[i]], names[p[j]])
    ELSE [i \in 1..Len(names) |-> i]

\* the keys of all objects of x: each object's entries in their arrangement,
\* the keys inside an entry's value right after the entry's key
RECURSIVE KeysInOrder(_, _)
KeysInOrder(x, canonical) ==
    IF x.type # "VECSXP" THEN <<>>
    ELSE IF ~x.named
    THEN Concat([i \in 1..Len(x.v) |-> KeysInOrder(x.v[i], canonical)])
    ELSE LET p == EntryOrder(x.names, canonical)
         IN  Concat([j \in 1..Len(x.v) |->
                       <<x.names[p[j]]>>
                       \o KeysInOrder(x.v[p[j]], canonical)])

\* C24: in canonical mode the entries of every object, at every nesting
\* depth, are emitted in ascending byte-lexicographic key order; in
\* non-canonical mode they are emitted in input order
C24_EntryOrder ==
    rt.pc = "encoded" => EmittedKeys(rt.text) = KeysInOrder(rt.x, rt.canonical)

\* a canonical encoding that had to reorder the entries of a nested object
C24_Witness ==
    /\ rt.pc = "encoded"
    /\ rt.canonical
    /\ rt.x.named
    /\ \E i \in 1..Len(rt.x.v) :
          /\ rt.x.v[i].type = "VECSXP"
          /\ Len(rt.x.v[i].names) = 2
          /\ ByteLexLess(rt.x.v[i].names[2], rt.x.v[i].names[1])
    /\ EmittedKeys(rt.text) # KeysInOrder(rt.x, FALSE)

(***************************************************************************)
(* Non-finite doubles in the encoder.  to_toon is called on a double       *)
(* vector (bare, in a named list or in an unnamed list) and write_toon_df  *)
(* on a table with a double column, strict or not; the elements are 1.5,   *)
(* NaN and Inf.  text is what the caller gets: the returned text or the    *)
(* content of the file.                                                    *)
(***************************************************************************)
OnePointFive == [neg |-> FALSE, ip |-> <<"1">>, fp |-> <<"5">>]

Doubles == { OnePointFive, R_NaN, R_PosInf }

DoubleSeqs == UNION {[1..n -> Doubles] : n \in 1..MaxItems}

DoubleValues ==
    { Rf_allocVector("REALSXP", v) : v \in DoubleSeqs }
    \cup { NamedList(<<<<"a">>>>, <<Rf_allocVector("REALSXP", v)>>) :
             v \in DoubleSeqs }
    \cup { Rf_allocVector("VECSXP", <<Rf_allocVector("REALSXP", v)>>) :
             v \in DoubleSeqs }

Column(name, type, vals) == [name |-> name, type |-> type, vals |-> vals]

DoubleTables ==
    UNION { { <<Column(<<"a">>, "DOUBLE", v)>>,
              <<Column(<<"a">>, "DOUBLE", v),
                Column(<<"b">>, "INTEGER", [i \in 1..Len(v) |-> 7])>>,
              <<Column(<<"b">>, "INTEGER", [i \in 1..Len(v) |-> 7]),
                Column(<<"a">>, "DOUBLE", v)>> } : v \in DoubleSeqs }

InitNaN ==
    /\ \E strict \in BOOLEAN :
          \/ \E x \in DoubleValues :
                rt = [pc |-> "value", x |-> x, strict |-> strict,
                      text |-> <<>>, err |-> <<>>]
          \/ \E df \in DoubleTables :
                rt = [pc |-> "table", T |-> df, strict |-> strict,
                      text |-> <<>>, err |-> <<>>]
    /\ cb = Idle /\ tab = Idle /\ strm = Idle

\* C_to_toon: the ParseError of the encoder becomes an R error and nothing
\* is returned
C_to_toon ==
    /\ rt.pc = "value"
    /\ \E opts \in {EncodeOptions(rt.strict, FALSE)} :
          IF EncodeThrows(rt.x, opts)
          THEN rt' = [rt EXCEPT !.pc = "error",
                        !.err = <<"NaN values not allowed in strict mode">>]
          ELSE rt' = [rt EXCEPT !.pc = "returned",
                        !.text = encode(rt.x, opts)]
    /\ UNCHANGED <<cb, tab, strm>>

NextNaN == C_to_toon \/ C_write_toon_df

SpecNaN == InitNaN /\ [][NextNaN]_vars

\* the double vector of a value of DoubleValues
DoublesOf(x) == IF x.type = "REALSXP" THEN x.v ELSE x.v[1].v

\* what follows the last space of a line
LastToken(line) ==
    IF Contains(line, " ")
    THEN SubSeq(line,
                1 + (CHOOSE i \in 1..Len(line) :
                        line[i] = " " /\ \A j \in (i + 1)..Len(line) : line[j] # " "),
                Len(line))
    ELSE line

\* the lines of the text that carry an element: not empty, not a header,
\* not a key alone
ElementLines(text) ==
    SelectSeq(ReadLines(text),
              LAMBDA l : /\ TrimBack(l) # <<>>
                         /\ TrimBack(l)[Len(TrimBack(l))] # ":")

\* the element of the vector at position i is written as null
ElementIsNull(text, i) ==
    /\ i <= Len(ElementLines(text))
    /\ LastToken(TrimBack(ElementLines(text)[i])) = NULL_TEXT

\* cell (i, j) of the table text is null
CellIsNull(text, i, j) ==
    /\ i + 1 <= Len(ReadLines(text))
    /\ j <= Len(split_row(ReadLines(text)[i + 1], ","))
    /\ trim(split_row(ReadLines(text)[i + 1], ",")[j]) = NULL_TEXT

\* C25: a double NaN makes the encoding fail with no output when strict is
\* true, and is emitted as null by a successful encoding when strict is
\* false; the same for the NaN cells of a table
C25_NaNStrictOrNull ==
    /\ (rt.pc \in {"returned", "error"} /\ "x" \in DOMAIN rt) =>
          \A i \in 1..Len(DoublesOf(rt.x)) :
             DoublesOf(rt.x)[i] = R_NaN =>
                IF rt.strict
                THEN rt.pc = "error" /\ rt.err # <<>> /\ rt.text = <<>>
                ELSE rt.pc = "returned" /\ ElementIsNull(rt.text, i)
    /\ (rt.pc \in {"written", "error"} /\ "T" \in DOMAIN rt) =>
          \A j \in 1..Len(rt.T) : \A i \in 1..Len(rt.T[j].vals) :
             (rt.T[j].type = "DOUBLE" /\ rt.T[j].vals[i] = R_NaN) =>
                IF rt.strict
                THEN rt.pc = "error" /\ rt.err # <<>> /\ rt.text = <<>>
                ELSE rt.pc = "written" /\ CellIsNull(rt.text, i, j)

\* a table with a NaN cell in its second row and second column was written
\* with strict false
C25_Witness ==
    /\ rt.pc = "written"
    /\ ~rt.strict
    /\ Len(rt.T) = 2
    /\ rt.T[2].type = "DOUBLE"
    /\ Len(rt.T[2].vals) = 2
    /\ rt.T[2].vals[2] = R_NaN
    /\ rt.T[2].vals[1] = OnePointFive

(***************************************************************************)
(* Numbers in list arrays.  from_toon reads a list array "[n]:" whose      *)
(* items "- 1", "- 2", "- 3.5", "- 0.5" are integers and doubles in every  *)
(* mix, with simplify on or off; value is the R value node_to_sexp makes   *)
(* of the parsed tree.                                                     *)
(***************************************************************************)
MaxListItems == 3

NumberTexts == { <<"1">>, <<"2">>, <<"3", ".", "5">>, <<"0", ".", "5">> }

ListArrayLines(items) ==
    <<ArrayHeader(Len(items))>>
    \o [i \in 1..Len(items) |-> <<" ", " ", "-", " ">> \o items[i]]

InitMixed ==
    /\ \E items \in UNION {[1..n -> NumberTexts] : n \in 1..MaxListItems},
          simplify \in BOOLEAN :
          rt = [pc |-> "text", items |-> items,
                text |-> JoinLines(ListArrayLines(items)),
                simplify |-> simplify, value |-> R_NilValue, err |-> <<>>]
    /\ cb = Idle /\ tab = Idle /\ strm = Idle

\* C_from_toon on the text: parse_string, then node_to_sexp
FromToon ==
    /\ rt.pc = "text"
    /\ \E r \in {parse_string(rt.text, ParseOptions(TRUE, rt.simplify))} :
          IF r.p.err # <<>>
          THEN rt' = [rt EXCEPT !.pc = "error", !.err = r.p.err]
          ELSE rt' = [rt EXCEPT !.pc = "value",
                        !.value = node_to_sexp(r.node, rt.simplify)]
    /\ UNCHANGED <<cb, tab, strm>>

SpecMixed == InitMixed /\ [][FromToon]_vars

IsIntegerText(t) == ~Contains(t, ".")

\* the double an item text stands for: "1" is 1.0, "3.5" is 3.5
DoubleOfText(t) ==
    IF IsIntegerText(t) THEN [neg |-> FALSE, ip |-> t, fp |-> <<>>]
    ELSE [neg |-> FALSE, ip |-> SubSeq(t, 1, IndexFrom(t, ".", 1) - 1),
          fp |-> SubSeq(t, IndexFrom(t, ".", 1) + 1, Len(t))]

MixesIntegersAndDoubles(items) ==
    /\ \E i \in 1..Len(items) : IsIntegerText(items[i])
    /\ \E i \in 1..Len(items) : ~IsIntegerText(items[i])

\* C26: a list array whose items mix integers and doubles is returned as
\* one double vector with the integers widened, not as a list of
\* separately typed items
C26_NumericPromotion ==
    (rt.pc \in {"value", "error"} /\ rt.simplify
        /\ MixesIntegersAndDoubles(rt.items)) =>
       /\ rt.pc = "value"
       /\ rt.value.type = "REALSXP"
       /\ rt.value.v = [i \in 1..Len(rt.items) |-> DoubleOfText(rt.items[i])]

(***************************************************************************)
(* The streaming writer (StreamWriter, toon_stream.cpp) behind             *)
(* C_stream_write_init, C_stream_write_batch and C_stream_write_close.     *)
(* file is the content of the output file (what file_ has been given       *)
(* counts as written), batches the data frames handed to write_batch so    *)
(* far.  Whether the file can be opened by the constructor, and reopened   *)
(* by close for reading and for rewriting, is the file system's choice.    *)
(* A batch is a data frame of the columns [name, type, vals]; a factor     *)
(* column is an INTSXP of codes with a levels attribute.                   *)
(***************************************************************************)
MaxWrites == 2

Schema == << <<"a">>, <<"b">> >>

FactorColumn(name, codes, levels) ==
    [name |-> name, type |-> "FACTOR", vals |-> codes, levels |-> levels]

WriterColumns ==
    UNION { {Column(<<"a">>, type, <<c>>) : c \in CellsOf(type)} :
            type \in {"LOGICAL", "INTEGER", "DOUBLE", "STRING"} }
    \cup { Column(<<"a">>, "DOUBLE", <<R_PosInf>>) }
    \cup { FactorColumn(<<"a">>, <<c>>, << <<"x">>, <<"y">> >>) :
             c \in {1, 2, NA_INTEGER} }

Batches ==
    { <<c>> : c \in WriterColumns }
    \cup { <<Column(<<"a">>, "INTEGER", <<7, NA_INTEGER>>),
             Column(<<"b">>, "STRING", << <<"x">>, NA_STRING >>)>>,
           <<Column(<<"a">>, "INTEGER", <<>>),
             Column(<<"b">>, "STRING", <<>>)>> }

\* the writer after its constructor has opened the file
StreamWriter(schema, indent) ==
    [schema_ |-> schema, indent_ |-> indent, file |-> <<>>,
     rows_written_ |-> 0, header_written_ |-> FALSE, closed_ |-> FALSE]

write_header(w) ==
    IF w.header_written_ THEN w
    ELSE [w EXCEPT !.file = @ \o <<"[", "0", "]", "{">>
                               \o Joined(w.schema_, <<",">>)
                               \o <<"}", ":", "\n">>,
                   !.header_written_ = TRUE]

\* file_ << setprecision(17) << val for a double that is not NaN
StreamDouble(val) ==
    IF isinf(val)
    THEN (IF val.neg THEN <<"-">> ELSE <<>>) \o <<"i", "n", "f">>
    ELSE Format17(val)

\* the switch on one character of a string cell
StreamEscapedChar(c) ==
    IF c = "\"" THEN <<"\\", "\"">>
    ELSE IF c = "\\" THEN <<"\\", "\\">>
    ELSE IF c = "\n" THEN <<"\\", "n">>
    ELSE IF c = "\r" THEN <<"\\", "r">>
    ELSE IF c = "\t" THEN <<"\\", "t">>
    ELSE <<c>>

\* one cell of write_row, by TYPEOF(col): a factor is an INTSXP
StreamCell(col, row) ==
    IF col.type = "LOGICAL" THEN LogicalText(col.vals[row])
    ELSE IF col.type \in {"INTEGER", "FACTOR"} THEN IntegerText(col.vals[row])
    ELSE IF col.type = "DOUBLE"
    THEN (IF isnan(col.vals[row]) THEN NULL_TEXT
          ELSE StreamDouble(col.vals[row]))
    ELSE IF col.type = "STRING"
    THEN (IF col.vals[row] = NA_STRING THEN NULL_TEXT
          ELSE <<"\"">>
               \o Concat([k \in 1..Len(col.vals[row]) |->
                            StreamEscapedChar(col.vals[row][k])])
               \o <<"\"">>)
    ELSE NULL_TEXT

\* the line write_row appends
write_row(df, row, indent) ==
    [i \in 1..indent |-> " "]
    \o Joined([j \in 1..Len(df) |-> StreamCell(df[j], row)], <<",", " ">>)
    \o <<"\n">>

\* write_batch once the header is there
WriteRows(w, df) ==
    [w EXCEPT !.file = @ \o Concat([i \in 1..Len(df[1].vals) |->
                                      write_row(df, i, w.indent_)]),
              !.rows_written_ = @ + Len(df[1].vals)]

write_batch(w, df) == WriteRows(write_header(w), df)

\* std::string::find: the index of the first occurrence, 0 for npos
Find(content, pat) ==
    IF \E i \in 1..(Len(content) - Len(pat) + 1) :
          SubSeq(content, i, i + Len(pat) - 1) = pat
    THEN CHOOSE i \in 1..(Len(content) - Len(pat) + 1) :
            /\ SubSeq(content, i, i + Len(pat) - 1) = pat
            /\ \A j \in 1..(i - 1) : SubSeq(content, j, j + Len(pat) - 1) # pat
    ELSE 0

\* content.replace(pos, 3, count_str) at the first "[0]"
Patched(content, pos, rows) ==
    IF pos = 0 THEN content
    ELSE SubSeq(content, 1, pos - 1) \o <<"[">> \o NatDigits(rows) \o <<"]">>
         \o SubSeq(content, pos + 3, Len(content))

\* close: the file is read back (nothing is read from a stream that did not
\* open), patched and written again (nothing is written to a stream that
\* did not open)
close(w, in_open, out_open) ==
    IF w.closed_ THEN w
    ELSE [w EXCEPT
            !.file = IF out_open
                     THEN Patched(IF in_open THEN w.file ELSE <<>>,
                                  Find(IF in_open THEN w.file ELSE <<>>,
                                       <<"[", "0", "]">>),
                                  w.rows_written_)
                     ELSE @,
            !.closed_ = TRUE]

InitWriter ==
    /\ \E indent \in {0, 2}, can_open \in BOOLEAN :
          rt = [pc |-> "new", indent |-> indent, can_open |-> can_open,
                w |-> StreamWriter(Schema, indent), batches |-> <<>>,
                before |-> <<>>, in_open |-> TRUE, out_open |-> TRUE,
                err |-> <<>>]
    /\ cb = Idle /\ tab = Idle /\ strm = Idle

\* C_stream_write_init: the constructor opens the file or throws
C_stream_write_init ==
    /\ rt.pc = "new"
    /\ IF rt.can_open
       THEN rt' = [rt EXCEPT !.pc = "open"]
       ELSE rt' = [rt EXCEPT !.pc = "error",
                     !.err = <<"Cannot open file for writing">>]
    /\ UNCHANGED <<cb, tab, strm>>

C_stream_write_batch ==
    /\ rt.pc = "open"
    /\ Len(rt.batches) < MaxWrites
    /\ \E df \in Batches :
          rt' = [rt EXCEPT !.w = write_batch(rt.w, df),
                           !.batches = Append(@, df)]
    /\ UNCHANGED <<cb, tab, strm>>

\* C_stream_write_close: close, then the writer is deleted
C_stream_write_close ==
    /\ rt.pc = "open"
    /\ \E in_open \in BOOLEAN, out_open \in BOOLEAN :
          rt' = [rt EXCEPT !.pc = "closed",
                           !.w = close(rt.w, in_open, out_open),
                           !.before = rt.w.file,
                           !.in_open = in_open, !.out_open = out_open]
    /\ UNCHANGED <<cb, tab, strm>>

NextWriter ==
    C_stream_write_init \/ C_stream_write_batch \/ C_stream_write_close

SpecWriter == InitWriter /\ [][NextWriter]_vars

\* the rows of all batches written so far
RECURSIVE TotalRows(_)
TotalRows(batches) ==
    IF Len(batches) = 0 THEN 0
    ELSE Len(batches[Len(batches)][1].vals)
         + TotalRows(SubSeq(batches, 1, Len(batches) - 1))

\* "[N]{a,b}:"
HeaderDeclaring(N) ==
    <<"[">> \o NatDigits(N) \o <<"]", "{">> \o Joined(Schema, <<",">>)
    \o <<"}", ":">>

\* the file is the header declaring N rows, then the N row lines that were
\* there before close
PatchedFile(file, before, N) ==
    /\ Len(ReadLines(file)) = N + 1
    /\ ReadLines(file)[1] = HeaderDeclaring(N)
    /\ Len(ReadLines(before)) = N + 1
    /\ Tail(ReadLines(file)) = Tail(ReadLines(before))

\* C27: after open, one or more write_batch calls and close, the first line
\* of the file is the header [N]{schema}: with N the total number of rows
\* written, exactly N row lines follow it, and no row line is altered
C27_RowCountBackPatch ==
    (rt.pc = "closed" /\ Len(rt.batches) >= 1) =>
       PatchedFile(rt.w.file, rt.before, TotalRows(rt.batches))

\* the same where close could reopen the file both times
BackPatchWhenReopened ==
    (rt.pc = "closed" /\ Len(rt.batches) >= 1 /\ rt.in_open /\ rt.out_open) =>
       PatchedFile(rt.w.file, rt.before, TotalRows(rt.batches))

\* the file begins with the line "[0]{a,b}:"
StartsWithHeader(file) ==
    /\ Len(file) >= Len(HeaderDeclaring(0)) + 1
    /\ SubSeq(file, 1, Len(HeaderDeclaring(0)) + 1)
          = HeaderDeclaring(0) \o <<"\n">>

\* C28: the header with the [0] placeholder is written when the writer is
\* opened: in every state between open and close the file starts with the
\* header line, and open followed by close with no write_batch leaves the
\* header declaring 0 rows
C28_HeaderAtOpen ==
    /\ rt.pc = "open" => StartsWithHeader(rt.w.file)
    /\ (rt.pc = "closed" /\ Len(rt.batches) = 0 /\ rt.in_open /\ rt.out_open)
          => rt.w.file = HeaderDeclaring(0) \o <<"\n">>

\* the header is in the file from the first write_batch on
HeaderAfterFirstBatch ==
    (rt.pc = "open" /\ Len(rt.batches) >= 1) => StartsWithHeader(rt.w.file)

\* C29: if the file cannot be opened when the writer is created, or cannot
\* be reopened during close for reading back or for rewriting, the
\* operation fails with a fatal error instead of completing
C29_OpenFailuresFatal ==
    /\ (rt.pc \in {"open", "closed"}) => rt.can_open
    /\ (rt.pc = "error") => rt.err # <<>>
    /\ (rt.pc = "closed") => (rt.in_open /\ rt.out_open)

\* the constructor's failure is fatal
OpenFailureFatal ==
    /\ (rt.pc \in {"open", "closed"}) => rt.can_open
    /\ (rt.pc = "error") => (~rt.can_open /\ rt.err # <<>>)

\* one cell of a row of encode_dataframe_tabular, by TYPEOF(col) and the
\* levels attribute
EncoderCell(col, row) ==
    IF col.type = "FACTOR"
    THEN (IF col.vals[row] = NA_INTEGER THEN NULL_TEXT
          ELSE append_escaped_string(col.levels[col.vals[row]]))
    ELSE CellText(col.type, col.vals[row])

\* the row line of encode_dataframe_tabular at depth 0
EncoderRow(df, row, opts) ==
    write_indent(1, opts)
    \o Joined([j \in 1..Len(df) |-> EncoderCell(df[j], row)], <<",", " ">>)
    \o write_newline(opts)

\* the row lines the encoder emits for the batches, one after the other,
\* with the writer's indent and strict off
EncoderRows(batches, indent) ==
    Concat([b \in 1..Len(batches) |->
              Concat([i \in 1..Len(batches[b][1].vals) |->
                        EncoderRow(batches[b], i,
                                   [EncodeOptions(FALSE, FALSE)
                                      EXCEPT !.indent = indent])])])

\* what the file holds after its header line
AfterHeader(file) ==
    SubSeq(file, Find(file, <<"\n">>) + 1, Len(file))

\* C30: each row line appended by write_batch is byte-identical to the row
\* line the encoder's tabular writer emits for the same table row with the
\* same indent, for logical, integer, factor, double and string columns and
\* for NA cells
C30_RowsAsEncoder ==
    (rt.pc = "open" /\ Len(rt.batches) >= 1) =>
       AfterHeader(rt.w.file) = EncoderRows(rt.batches, rt.indent)

\* the same for the batches without a factor, an infinite double or a
\* control character
PlainBatch(df) ==
    \A j \in 1..Len(df) :
       /\ df[j].type # "FACTOR"
       /\ \A i \in 1..Len(df[j].vals) :
             /\ df[j].type = "DOUBLE" => ~isinf(df[j].vals[i])
             /\ (df[j].type = "STRING" /\ df[j].vals[i] # NA_STRING)
                   => ~Contains(df[j].vals[i], "\f")

PlainRowsAsEncoder ==
    (rt.pc = "open" /\ Len(rt.batches) >= 1
        /\ \A b \in 1..Len(rt.batches) : PlainBatch(rt.batches[b])) =>
       AfterHeader(rt.w.file) = EncoderRows(rt.batches, rt.indent)

\* the active typed array and the NA mask are as long as the row count
LengthsAgree(c) ==
    /\ Len(c[ActiveField(c.type_)]) = c.size_
    /\ c.na_mask_.n = c.size_

\* C31: after every set or set_null call on a column, in any sequence and
\* for any current column type, the active typed array and the NA mask both
\* have length equal to the column's row count, so every row index below
\* the row count is a valid index of the mask
C31_ColumnLengths ==
    (cb.pc = "fill" /\ Len(cb.calls) > 0) => LengthsAgree(cb.col)

(***************************************************************************)
(* A column under several force_type calls.  parse_header applies every    *)
(* entry of col_types in order, each to the first column of that name: two *)
(* entries of one name force the same column twice, before any row is set. *)
(***************************************************************************)
\* force_type on a column that was forced already
CbForceAgain(t) ==
    /\ cb.pc = "fill"
    /\ Len(cb.calls) = 0
    /\ cb.forced # t
    /\ cb' = [cb EXCEPT !.forced = t, !.col = force_type(cb.col, t)]
    /\ UNCHANGED <<tab, strm, rt>>

NextForce ==
    \/ \E t \in ForcedTypes : CbForceType(t)
    \/ \E t \in ForcedTypes : CbForceAgain(t)
    \/ \E text \in CellTexts : CbSet(text)
    \/ CbSetNull
    \/ CbFinalize
    \/ CbAbort

SpecForce == InitCol /\ [][NextForce]_vars

\* C32: under any sequence of force_type, set and set_null calls a column's
\* type never moves to a lower type of the lattice
\* UNKNOWN < LOGICAL < INTEGER < DOUBLE < STRING
C32_TypeMonotone ==
    [][Rank(cb'.col.type_) >= Rank(cb.col.type_)]_vars

\* the same for the calls that follow the last force_type
TypeMonotoneUnderSet ==
    [][Len(cb'.calls) > Len(cb.calls)
          => Rank(cb'.col.type_) >= Rank(cb.col.type_)]_vars

(***************************************************************************)
(* The file-backed BufferedReader.  file is what the stream has not        *)
(* delivered yet, buffer_ the bytes in [0, buffer_end_) of the block       *)
(* buffer, buffer_pos_ the count of bytes of it consumed already, scratch_ *)
(* the part of a line carried over a refill.                               *)
(***************************************************************************)
MaxBytes == 4
MaxBlock == 3

FileBytes == {"a", "b", "\r", "\n"}

Contents == UNION {[1..n -> FileBytes] : n \in 0..MaxBytes}

BufferedReader(bytes, buffer_size) ==
    [file |-> bytes, buffer_size_ |-> buffer_size, buffer_ |-> <<>>,
     buffer_pos_ |-> 0, eof_reached_ |-> FALSE, scratch_ |-> <<>>,
     line_no_ |-> 0]

\* the stream read of fill_buffer: got bytes arrive behind the kept ones
FileRead(r, kept, got) ==
    [r EXCEPT !.buffer_ = kept \o SubSeq(r.file, 1, got),
              !.buffer_pos_ = 0,
              !.file = SubSeq(r.file, got + 1, Len(r.file)),
              !.eof_reached_ = (got = 0
                                \/ r.buffer_size_ - Len(kept) > Len(r.file))]

\* buffer_end_ > 0 after the read
Filled(r) == [r |-> r, ok |-> Len(r.buffer_) > 0]

fill_buffer(r) ==
    IF r.eof_reached_ THEN [r |-> r, ok |-> FALSE]
    ELSE Filled(FileRead(r,
                    SubSeq(r.buffer_, r.buffer_pos_ + 1, Len(r.buffer_)),
                    Min(r.buffer_size_
                          - (Len(r.buffer_) - Min(r.buffer_pos_, Len(r.buffer_))),
                        Len(r.file))))

\* the part of a line that lies in the buffer, up to the newline found
LineInBuffer(r, newline) ==
    SubSeq(r.buffer_, r.buffer_pos_ + 1, newline - 1)

\* the line that ends at the newline found: a direct view, or scratch_ plus
\* the last segment
LineFound(r, newline) ==
    IF r.scratch_ = <<>>
    THEN SubSeq(r.buffer_, r.buffer_pos_ + 1, newline - 1)
    ELSE r.scratch_ \o SubSeq(r.buffer_, r.buffer_pos_ + 1, newline - 1)

LineOut(r, line) ==
    [r |-> [r EXCEPT !.line_no_ = @ + 1], ok |-> TRUE,
     line |-> handle_crlf(line), line_no |-> r.line_no_ + 1]

NoLine(r) == [r |-> r, ok |-> FALSE, line |-> <<>>, line_no |-> r.line_no_]

RECURSIVE NextLineLoop(_)
RECURSIVE NextLineScan(_, _)
NextLineFilled(f) ==
    IF ~f.ok
    THEN IF f.r.scratch_ # <<>> THEN LineOut(f.r, f.r.scratch_)
         ELSE NoLine(f.r)
    ELSE NextLineScan(f.r, IndexFrom(f.r.buffer_, "\n", f.r.buffer_pos_ + 1))

NextLineScan(r, newline) ==
    IF newline # 0
    THEN LineOut([r EXCEPT !.buffer_pos_ = newline], LineFound(r, newline))
    ELSE NextLineLoop([r EXCEPT
             !.scratch_ = @ \o SubSeq(r.buffer_, r.buffer_pos_ + 1,
                                      Len(r.buffer_)),
             !.buffer_pos_ = Len(r.buffer_)])

NextLineLoop(r) ==
    IF r.buffer_pos_ >= Len(r.buffer_)
    THEN NextLineFilled(fill_buffer(r))
    ELSE NextLineScan(r, IndexFrom(r.buffer_, "\n", r.buffer_pos_ + 1))

\* next_line of the file path: scratch_ is cleared, then the loop runs
next_line(r) == NextLineLoop([r EXCEPT !.scratch_ = <<>>])

InitReader ==
    /\ \E bytes \in Contents, size \in 1..MaxBlock :
          rt = [pc |-> "reading", content |-> bytes,
                reader |-> BufferedReader(bytes, size), got |-> <<>>]
    /\ cb = Idle /\ tab = Idle /\ strm = Idle

Fetched(res) ==
    /\ rt' = [rt EXCEPT
                !.pc = IF res.ok THEN "reading" ELSE "eof",
                !.reader = res.r,
                !.got = IF res.ok
                        THEN Append(@, [line |-> res.line,
                                        line_no |-> res.line_no])
                        ELSE @]
    /\ UNCHANGED <<cb, tab, strm>>

\* one call of next_line on the file-backed reader
ReaderNextLine ==
    /\ rt.pc = "reading"
    /\ Fetched(next_line(rt.reader))

SpecReader == InitReader /\ [][ReaderNextLine]_vars

\* the (line, line number) pairs of the in-memory reader
StringPairs(data) ==
    [i \in 1..Len(ReadLines(data)) |->
        [line |-> ReadLines(data)[i], line_no |-> i]]

\* C33: for every byte content and every block size the file-backed reader
\* returns the same sequence of (line text, line number) pairs as the
\* in-memory reader: at every moment a prefix of it, and all of it at the end
C33_ReaderEquivalence ==
    rt.pc \in {"reading", "eof"} =>
        /\ Len(rt.got) <= Len(StringPairs(rt.content))
        /\ rt.got = SubSeq(StringPairs(rt.content), 1, Len(rt.got))
        /\ rt.pc = "eof" => rt.got = StringPairs(rt.content)

\* a line with CR LF astride a refill, then a last line without LF, read to
\* the end
C33_Witness ==
    /\ rt.pc = "eof"
    /\ rt.content = <<"a", "\r", "\n", "b">>
    /\ rt.reader.buffer_size_ = 2
    /\ rt.got = <<[line |-> <<"a">>, line_no |-> 1],
                  [line |-> <<"b">>, line_no |-> 2]>>

(***************************************************************************)
(* parse_string on texts of list items, nested blocks and keys.  The state *)
(* keeps, beside the outcome, what the parser left behind: the lines the   *)
(* reader never delivered, the peek slot, and the history of the slot.     *)
(***************************************************************************)
MaxParseLines == 4

\* "- " (an item whose value is the block below it), "- 1", "  a: 1",
\* "b: 2", "a:", "  - 1", "a: [1]:" (a key with an inline array header)
ParseLines ==
    { <<"a", ":", " ", "[", "1", "]", ":">>,
      <<"-", " ">>,
      <<"-", " ", "1">>,
      <<" ", " ", "a", ":", " ", "1">>,
      <<"b", ":", " ", "2">>,
      <<"a", ":">>,
      <<" ", " ", "-", " ", "1">> }

InitParse ==
    /\ \E ls \in UNION {[1..n -> ParseLines] : n \in 0..MaxParseLines},
          strict \in BOOLEAN :
          rt = [pc |-> "text", ls |-> ls, text |-> JoinLines(ls),
                strict |-> strict, parsed |-> NoOutcome, unread |-> 0,
                has_peeked_ |-> FALSE, peeked_line_no |-> 0,
                fetched_over |-> {}, overwritten |-> {}]
    /\ cb = Idle /\ tab = Idle /\ strm = Idle

\* the parser as parse_string leaves it, with the tree or the error
Parsed(r) ==
    rt' = [rt EXCEPT
             !.pc = "parsed",
             !.parsed = Outcome(r),
             !.unread = Len(r.p.lines),
             !.has_peeked_ = r.p.has_peeked_,
             !.peeked_line_no = IF r.p.has_peeked_
                                THEN r.p.peeked_line_.line_no ELSE 0,
             !.fetched_over = r.p.fetched_over,
             !.overwritten = r.p.overwritten]

\* Parser::parse_string on the text
ParseString ==
    /\ rt.pc = "text"
    /\ Parsed(parse_string(rt.text, ParseOptions(rt.strict, TRUE)))
    /\ UNCHANGED <<cb, tab, strm>>

SpecParse == InitParse /\ [][ParseString]_vars

\* C34: peek-slot discipline: the parser never fetches a new line from the
\* reader while the peek slot holds a pushed-back line, and never overwrites
\* an occupied slot
C34_PeekSlotDiscipline ==
    rt.pc = "parsed" => rt.fetched_over = {} /\ rt.overwritten = {}

\* the loops of parse_object and parse_array, which look at the slot first,
\* keep the discipline: without a list at the top level no line is lost
SlotKeptWithoutTopList ==
    (rt.pc = "parsed" /\ Len(rt.ls) > 0 /\ rt.ls[1][1] # "-")
        => rt.overwritten = {}

\* the indices of the ListItem lines of ls that sit at that indent
ItemLines(ls, indent) ==
    {i \in 1..Len(ls) :
        /\ Len(ls[i]) >= indent + 2
        /\ \A j \in 1..indent : ls[i][j] = " "
        /\ ls[i][indent + 1] = "-" /\ ls[i][indent + 2] = " "}

IsItemLine(l) == Len(l) >= 2 /\ l[1] = "-" /\ l[2] = " "

\* a list at the top level without an array header: item lines at indent 0,
\* each "- " followed by any number of lines "  a: 1" of its nested block
TopLevelList(ls) ==
    /\ Len(ls) > 0
    /\ IsItemLine(ls[1])
    /\ \A i \in 1..Len(ls) :
          \/ IsItemLine(ls[i])
          \/ /\ ls[i] = <<" ", " ", "a", ":", " ", "1">>
             /\ i > 1
             /\ ls[i - 1] \in {<<"-", " ">>, <<" ", " ", "a", ":", " ", "1">>}

\* a list under the nested key "a:": item lines "  - 1" at indent 2
NestedKeyList(ls) ==
    /\ Len(ls) > 1
    /\ ls[1] = <<"a", ":">>
    /\ \A i \in 2..Len(ls) : ls[i] = <<" ", " ", "-", " ", "1">>

\* the kind of the element an item line stands for: its inline value, the
\* object of its nested block, or null without a block
ItemKind(ls, i) ==
    IF Len(ls[i]) > 2 THEN "N_INT"
    ELSE IF i < Len(ls) /\ ~IsItemLine(ls[i + 1]) THEN "N_OBJECT"
    ELSE "N_NULL"

\* the i-th smallest element of a set of numbers
RECURSIVE NthOf(_, _)
NthOf(S, i) ==
    IF i = 1 THEN CHOOSE x \in S : \A y \in S : x <= y
    ELSE NthOf(S \ {CHOOSE x \in S : \A y \in S : x <= y}, i - 1)

\* the array has one element per item line, in source order
OnePerItem(node, ls, indent) ==
    /\ node.kind = "N_ARRAY"
    /\ Len(node.array_items) = Cardinality(ItemLines(ls, indent))
    /\ \A i \in 1..Len(node.array_items) :
          node.array_items[i].kind = ItemKind(ls, NthOf(ItemLines(ls, indent), i))

\* C35: a list written without an array header, at the top level or under a
\* nested key, whose ListItem lines all sit at the same indent, parses to an
\* Array with exactly one element per ListItem line, in source order, whether
\* the item's value is inline or a nested block on the following lines
C35_ListItemCount ==
    rt.pc = "parsed" =>
        /\ TopLevelList(rt.ls) => OnePerItem(rt.parsed.node, rt.ls, 0)
        /\ NestedKeyList(rt.ls) =>
              /\ rt.parsed.node.kind = "N_OBJECT"
              /\ Len(rt.parsed.node.object_items) = 1
              /\ OnePerItem(rt.parsed.node.object_items[1].second, rt.ls, 2)

\* lists of inline items only are counted right
InlineItemsCounted ==
    (/\ rt.pc = "parsed"
     /\ Len(rt.ls) > 0
     /\ \A i \in 1..Len(rt.ls) : rt.ls[i] = <<"-", " ", "1">>)
        => OnePerItem(rt.parsed.node, rt.ls, 0)

\* so are the lists under a nested key
NestedKeyItemsCounted ==
    (rt.pc = "parsed" /\ NestedKeyList(rt.ls))
        => /\ rt.parsed.node.kind = "N_OBJECT"
           /\ OnePerItem(rt.parsed.node.object_items[1].second, rt.ls, 2)

(***************************************************************************)
(* The parser loop by loop.  The machine holds the parser p and the stack  *)
(* of the open frames of parse_value, of its list loop, of parse_object    *)
(* and of parse_array; one step is the start of a frame or one iteration   *)
(* of the loop of the top frame.  The nodes are left out: a frame keeps    *)
(* what decides its control flow, parent_indent, its own indent and        *)
(* whether its array is tabular.                                           *)
(***************************************************************************)
\* "- ", "- 1", "  a: 1", "a:", "  - 1", "a: [1]{b}:"
StepLines ==
    { <<"-", " ">>,
      <<"-", " ", "1">>,
      <<" ", " ", "a", ":", " ", "1">>,
      <<"a", ":">>,
      <<" ", " ", "-", " ", "1">>,
      <<"a", ":", " ", "[", "1", "]", "{", "b", "}", ":">> }

Frame(fn, parent_indent, indent, tabular, started) ==
    [fn |-> fn, parent_indent |-> parent_indent, indent |-> indent,
     tabular |-> tabular, started |-> started]

ValueFrame(parent_indent) == Frame("parse_value", parent_indent, 0, FALSE, TRUE)

ListFrame(parent_indent, list_indent) ==
    Frame("list_loop", parent_indent, list_indent, FALSE, TRUE)

ObjectFrame(parent_indent) ==
    Frame("parse_object", parent_indent, 0, FALSE, FALSE)

ArrayFrame(parent_indent, tabular) ==
    Frame("parse_array", parent_indent, -1, tabular, FALSE)

Machine(p, stack) == [p |-> p, stack |-> stack]

Top(m) == m.stack[Len(m.stack)]

\* return
Pop(m) == Machine(m.p, SubSeq(m.stack, 1, Len(m.stack) - 1))

\* a call
Push(m, f) == Machine(m.p, Append(m.stack, f))

\* the frame goes on as f: a tail call, or a local of the frame changes
Replace(m, f) == Machine(m.p, [m.stack EXCEPT ![Len(m.stack)] = f])

\* a thrown ParseError unwinds every frame
Throw(m, msg) == Machine([m.p EXCEPT !.err = msg], <<>>)

\* the branch entered with the slot left as it is
LeaveInSlot(p) == p

\* has_peeked_ = false on the way into the peeked branch of a loop
Take(p) == [p EXCEPT !.has_peeked_ = FALSE]

\* the RAW_VALUE case: a primitive returns, anything else throws
RawStep(m, value) ==
    IF parse_primitive(value, m.p.opts) # nullptr THEN Pop(m)
    ELSE Throw(m, <<"Invalid value">>)

\* parse_value on the peeked line info (the slot is taken already)
ValueOnPeeked(m, info, parent_indent) ==
    IF IsBlank(info) THEN m
    ELSE IF info.indent <= parent_indent
    THEN Pop(Machine([m.p EXCEPT !.has_peeked_ = TRUE], m.stack))
    ELSE IF IsKey(info) THEN Replace(m, ObjectFrame(parent_indent))
    ELSE IF info.type = "LIST_ITEM"
    THEN IF Len(info.value) > 0
         THEN IF parse_primitive(info.value, m.p.opts) # nullptr
              THEN Replace(m, ArrayFrame(parent_indent, FALSE))
              ELSE Push(Replace(Machine([m.p EXCEPT
                                            !.has_peeked_ = TRUE,
                                            !.peeked_line_.type = "RAW_VALUE",
                                            !.peeked_line_.indent = info.indent + 2],
                                        m.stack),
                                ArrayFrame(parent_indent, FALSE)),
                        ValueFrame(info.indent + 2))
         ELSE Push(Replace(m, ArrayFrame(parent_indent, FALSE)),
                   ValueFrame(info.indent))
    ELSE IF IsHeader(info)
    THEN Replace(m, ArrayFrame(parent_indent, info.tabular.is_tabular))
    ELSE IF info.type = "RAW_VALUE" THEN RawStep(m, info.value)
    ELSE Pop(m)

\* parse_value on a line of the reader (the line is fetched already)
ValueOnLine(m, info, parent_indent) ==
    IF info.type = "THROW" THEN Throw(m, TabError)
    ELSE IF IsBlank(info) THEN m
    ELSE IF info.indent <= parent_indent
    THEN Pop(Machine(Peek(m.p, info), m.stack))
    ELSE IF IsKey(info)
    THEN Replace(Machine([m.p EXCEPT !.peeked_line_ = info], m.stack),
                 ObjectFrame(parent_indent))
    ELSE IF info.type = "LIST_ITEM"
    THEN IF Len(info.value) > 0
         THEN Replace(m, ListFrame(parent_indent, info.indent))
         ELSE Push(Replace(m, ListFrame(parent_indent, info.indent)),
                   ValueFrame(info.indent))
    ELSE IF IsHeader(info)
    THEN Replace(Machine(Peek(m.p, info), m.stack),
                 ArrayFrame(parent_indent, info.tabular.is_tabular))
    ELSE RawStep(m, info.value)

\* one iteration of the loop of parse_value
ValueStep(m, f) ==
    IF m.p.has_peeked_
    THEN ValueOnPeeked(Machine(Take(m.p), m.stack), m.p.peeked_line_,
                       f.parent_indent)
    ELSE IF Len(m.p.lines) = 0 THEN Pop(m)
    ELSE ValueOnLine(Machine(Advance(m.p), m.stack), NextInfo(m.p),
                     f.parent_indent)

\* one line of the list loop of parse_value
ListOnLine(m, info, f) ==
    IF info.type = "THROW" THEN Throw(m, TabError)
    ELSE IF IsBlank(info) THEN m
    ELSE IF \/ info.indent <= f.parent_indent
            \/ info.type # "LIST_ITEM"
            \/ info.indent # f.indent
    THEN Pop(Machine(Peek(m.p, info), m.stack))
    ELSE IF Len(info.value) > 0 THEN m
    ELSE Push(m, ValueFrame(info.indent))

\* one iteration of the list loop of parse_value: the reader, never the slot
ListStep(m, f) ==
    IF Len(m.p.lines) = 0 THEN Pop(m)
    ELSE ListOnLine(Machine(Advance(m.p), m.stack), NextInfo(m.p), f)

\* an inline array header behind a key: the header is pushed, parse_array
\* is called
InlineHeaderCall(m, kv_info, header) ==
    IF header.declared_count > 0 \/ header.is_tabular
    THEN Push(Machine([m.p EXCEPT
                          !.has_peeked_ = TRUE,
                          !.peeked_line_.type =
                              IF header.is_tabular THEN "TABULAR_HEADER"
                              ELSE "ARRAY_HEADER",
                          !.peeked_line_.tabular = header,
                          !.peeked_line_.indent = kv_info.indent + 2],
                      m.stack),
              ArrayFrame(kv_info.indent, header.is_tabular))
    ELSE m

\* the calls of the lambda process_key_value
KeyValueCall(m, kv_info) ==
    IF kv_info.type = "KEY_VALUE"
    THEN IF parse_primitive(kv_info.value, m.p.opts) # nullptr THEN m
         ELSE IF Len(kv_info.value) > 0 /\ kv_info.value[1] = "["
         THEN InlineHeaderCall(m, kv_info, parse_array_header(kv_info.value))
         ELSE m
    ELSE Push(m, ValueFrame(kv_info.indent))

\* one line of the loop of parse_object
ObjectOnLine(m, info, f) ==
    IF info.type = "THROW" THEN Throw(m, TabError)
    ELSE IF IsBlank(info) THEN m
    ELSE IF \/ info.indent <= f.parent_indent
            \/ info.indent # f.indent
            \/ ~IsKey(info)
    THEN Pop(Machine(Peek(m.p, info), m.stack))
    ELSE KeyValueCall(m, info)

\* the start of parse_object (the first key is peeked_line_), or one
\* iteration of its loop
ObjectStep(m, f) ==
    IF ~f.started
    THEN KeyValueCall(Replace(m, [f EXCEPT !.started = TRUE,
                                           !.indent = m.p.peeked_line_.indent]),
                      m.p.peeked_line_)
    ELSE IF m.p.has_peeked_
    THEN ObjectOnLine(Machine(Take(m.p), m.stack), m.p.peeked_line_, f)
    ELSE IF Len(m.p.lines) = 0 THEN Pop(m)
    ELSE ObjectOnLine(Machine(Advance(m.p), m.stack), NextInfo(m.p), f)

\* one line of the row loop of parse_array
TabularOnLine(m, info, f, arr_indent) ==
    IF info.indent <= f.parent_indent \/ info.indent < arr_indent
    THEN Pop(Machine(Peek(m.p, info), m.stack))
    ELSE Replace(m, [f EXCEPT !.indent = arr_indent])

\* one line of the item loop of parse_array
ItemOnLine(m, info, f, arr_indent) ==
    IF info.indent <= f.parent_indent
    THEN Pop(Machine(Peek(m.p, info), m.stack))
    ELSE IF info.type = "LIST_ITEM" /\ info.indent = arr_indent
    THEN IF Len(info.value) > 0
         THEN Replace(m, [f EXCEPT !.indent = arr_indent])
         ELSE Push(Replace(m, [f EXCEPT !.indent = arr_indent]),
                   ValueFrame(info.indent))
    ELSE Pop(Machine(Peek(m.p, info), m.stack))

ArrayOnLine(m, info, f) ==
    IF info.type = "THROW" THEN Throw(m, TabError)
    ELSE IF IsBlank(info) THEN m
    ELSE IF f.tabular
    THEN TabularOnLine(m, info, f,
                       IF f.indent < 0 THEN info.indent ELSE f.indent)
    ELSE ItemOnLine(m, info, f,
                    IF f.indent < 0 /\ info.type = "LIST_ITEM"
                    THEN info.indent ELSE f.indent)

\* the start of parse_array (a peeked header line is consumed), or one
\* iteration of its row loop (the reader only) or of its item loop
ArrayStep(m, f) ==
    IF ~f.started
    THEN Replace(Machine(IF m.p.has_peeked_ /\ IsHeader(m.p.peeked_line_)
                         THEN [m.p EXCEPT !.has_peeked_ = FALSE] ELSE m.p,
                         m.stack),
                 [f EXCEPT !.started = TRUE])
    ELSE IF ~f.tabular /\ m.p.has_peeked_
    THEN ArrayOnLine(Machine(Take(m.p), m.stack), m.p.peeked_line_, f)
    ELSE IF Len(m.p.lines) = 0 THEN Pop(m)
    ELSE ArrayOnLine(Machine(Advance(m.p), m.stack), NextInfo(m.p), f)

InitSteps ==
    /\ \E ls \in UNION {[1..n -> StepLines] : n \in 0..MaxParseLines} :
          rt = [pc |-> "running", ls |-> ls,
                m |-> Machine(Parser(ls, ParseOptions(FALSE, TRUE)),
                              <<ValueFrame(-1)>>)]
    /\ cb = Idle /\ tab = Idle /\ strm = Idle

\* the machine after a step; parse_string has returned when no frame is left
Stepped(m) ==
    /\ rt' = [rt EXCEPT !.m = m,
                        !.pc = IF Len(m.stack) = 0 THEN "done" ELSE "running"]
    /\ UNCHANGED <<cb, tab, strm>>

StepValue ==
    /\ rt.pc = "running"
    /\ Top(rt.m).fn = "parse_value"
    /\ \E m \in {ValueStep(rt.m, Top(rt.m))} : Stepped(m)

StepList ==
    /\ rt.pc = "running"
    /\ Top(rt.m).fn = "list_loop"
    /\ \E m \in {ListStep(rt.m, Top(rt.m))} : Stepped(m)

StepObject ==
    /\ rt.pc = "running"
    /\ Top(rt.m).fn = "parse_object"
    /\ \E m \in {ObjectStep(rt.m, Top(rt.m))} : Stepped(m)

StepArray ==
    /\ rt.pc = "running"
    /\ Top(rt.m).fn = "parse_array"
    /\ \E m \in {ArrayStep(rt.m, Top(rt.m))} : Stepped(m)

NextSteps == StepValue \/ StepList \/ StepObject \/ StepArray

SpecSteps == InitSteps /\ [][NextSteps]_vars

\* the step consumed a line of the reader
ConsumedLine == Len(rt'.m.p.lines) < Len(rt.m.p.lines)

\* the step consumed the peek slot
ConsumedSlot == rt.m.p.has_peeked_ /\ ~rt'.m.p.has_peeked_

\* the step left the loop of the top frame (a return, a throw or a tail
\* call), or was the start of the frame
LeftLoop ==
    \/ Len(rt'.m.stack) < Len(rt.m.stack)
    \/ rt'.m.stack[Len(rt.m.stack)].fn # Top(rt.m).fn
    \/ rt'.m.stack[Len(rt.m.stack)].started # Top(rt.m).started

\* A variant of the machine: a line of the reader weighs more than whatever
\* its fetch can push, a line in the slot more than the frame it can open,
\* a frame that has not started more than what its start can push.
SlotWeight(p) ==
    IF ~p.has_peeked_ THEN 0
    ELSE IF IsHeader(p.peeked_line_) \/ p.peeked_line_.type = "RAW_VALUE"
    THEN 2
    ELSE 6

FrameWeight(f) ==
    IF f.started THEN 1
    ELSE IF f.fn = "parse_object" THEN 6
    ELSE 2

RECURSIVE StackWeight(_)
StackWeight(stack) ==
    IF Len(stack) = 0 THEN 0
    ELSE FrameWeight(Head(stack)) + StackWeight(Tail(stack))

Variant(m) ==
    7 * Len(m.p.lines) + SlotWeight(m.p) + StackWeight(m.stack)

Control(p) ==
    [lines |-> p.lines, line_no |-> p.line_no, has_peeked_ |-> p.has_peeked_,
     peeked_line_ |-> p.peeked_line_, err |-> p.err,
     fetched_over |-> p.fetched_over, overwritten |-> p.overwritten]

\* the machine ends where parse_value ends: the same lines unread, the same
\* peek slot and history, the same error
StepsAgree ==
    rt.pc = "done" =>
        Control(rt.m.p)
          = Control(parse_value(Parser(rt.ls, ParseOptions(FALSE, TRUE)), -1).p)

\* parse_string returned a tree
ReturnedTree == rt.pc = "parsed" /\ rt.parsed.err = <<>> /\ rt.parsed.node # nullptr

\* C37: no silent truncation: when parse_text returns a tree, no line is left
\* unread in the reader and none is left in, or was dropped from, the peek
\* slot (the lines of these texts are all non-empty and no comments)
C37_NoSilentTruncation ==
    ReturnedTree =>
        /\ rt.unread = 0
        /\ ~rt.has_peeked_
        /\ rt.fetched_over = {} /\ rt.overwritten = {}

\* a tree is returned with a line still in the reader
LinesLeftUnread == ReturnedTree => rt.unread = 0

\* a tree is returned with a line still in the peek slot, the slot never
\* having been fetched over or overwritten
LineLeftInSlot ==
    (ReturnedTree /\ rt.fetched_over = {} /\ rt.overwritten = {})
        => ~rt.has_peeked_

\* the tree of the same text parsed in non-strict mode
NonStrictTree == parse_string(rt.text, ParseOptions(FALSE, TRUE)).node

\* C38: strict mode only rejects: a text that the parser accepts without
\* error in strict mode yields the same value tree in non-strict mode
C38_StrictOnlyRejects ==
    (rt.pc = "parsed" /\ rt.strict /\ rt.parsed.err = <<>>)
        => rt.parsed.node = NonStrictTree

\* the trees agree on the texts without a key whose value is an inline
\* array header
AgreeWithoutInlineHeader ==
    (/\ rt.pc = "parsed" /\ rt.strict /\ rt.parsed.err = <<>>
     /\ \A i \in 1..Len(rt.ls) : ~Contains(rt.ls[i], "["))
        => rt.parsed.node = NonStrictTree

\* what the parse of the validated input leaves under the same options:
\* Parser::parse_string for a text, Parser::parse_file for a file
ParsedAlike ==
    IF rt.is_file THEN parse_file(rt.readable, rt.text, rt.opts)
    ELSE Outcome(parse_string(rt.text, rt.opts))

\* C39: validate agrees with parse: validate reports ok exactly when the
\* parse of the same input with the same options completes without raising
\* an error, including for empty and comment-only input
C39_ValidateAgreesWithParse ==
    rt.pc = "returned" => (rt.vr.valid <=> ParsedAlike.err = <<>>)

\* they agree whenever the parse returns a tree
AgreeOnTrees ==
    (rt.pc = "returned" /\ ParsedAlike.node # nullptr)
        => (rt.vr.valid <=> ParsedAlike.err = <<>>)

\* validate says ok only if the parse raises no error
ValidOnlyIfParses ==
    (rt.pc = "returned" /\ rt.vr.valid) => ParsedAlike.err = <<>>

(***************************************************************************)
(* read_table and stream_rows on tables whose declared field names may     *)
(* look like the names that schema expansion makes up: the headers are     *)
(* "[2]{a,b}:" and "[2]{a,V3}:", the rows have 1, 2 or 4 fields.           *)
(***************************************************************************)
NameHeaders ==
    { HeaderLine,
      <<"[", "2", "]", "{", "a", ",", "V", "3", "}", ":">> }

NameRowLines ==
    { <<" ", " ", "1", ",", "x">>,
      <<" ", " ", "t", "r", "u", "e">>,
      <<" ", " ", "7", ",", "2", ",", "n", "u", "l", "l", ",", "3">> }

InitNames ==
    /\ \E h \in NameHeaders,
          rows \in UNION {[1..n -> NameRowLines] : n \in 0..MaxRows},
          ct \in ColTypeOpts, rr \in RaggedOpts, bs \in 1..MaxBatch :
          /\ tab = TabularParser(<<h>> \o rows, Options(ct, rr))
          /\ strm = RowStreamer(<<h>> \o rows, Options(ct, rr), bs, {TRUE})
    /\ cb = Idle /\ rt = Idle

SpecNames == InitNames /\ [][NextTable]_vars

\* the field names the header of the input declares
DeclaredNames(input) == HeaderParts(input[1]).field_names_

\* C40: if the field names declared in the tabular header are pairwise
\* distinct, then under expand_warn the names of all columns, declared and
\* synthesised, stay pairwise distinct whatever rows are ingested, in
\* read_table and in stream_rows
C40_ColumnNamesUnique ==
    /\ (/\ tab.opts.ragged_rows = "expand_warn"
        /\ Injective(DeclaredNames(tab.input)))
          => /\ Injective(tab.field_names_)
             /\ Injective([i \in 1..Len(tab.columns_) |-> tab.columns_[i].name])
    /\ (/\ strm.opts.ragged_rows = "expand_warn"
        /\ Injective(DeclaredNames(strm.input)))
          => /\ Injective(strm.field_names_)
             /\ Injective([i \in 1..Len(strm.batch_columns_) |->
                              strm.batch_columns_[i].name])

\* the names stay distinct when no declared name is a "V" and a number
UniqueWithPlainNames ==
    (/\ tab.opts.ragged_rows = "expand_warn"
     /\ \A i \in 1..Len(DeclaredNames(tab.input)) :
           DeclaredNames(tab.input)[i][1] # "V")
        => /\ Injective([i \in 1..Len(tab.columns_) |-> tab.columns_[i].name])
           /\ Injective([i \in 1..Len(strm.batch_columns_) |->
                            strm.batch_columns_[i].name])

=============================================================================
